---- MODULE Spec2Model ----
(***************************************************************************)
(* A model of the Cyrus proxy worker: the token cipher (utils/crypto.ts),  *)
(* the token store (services/KVOAuthStorage.ts) and the routes of the      *)
(* worker entry point (index.ts): POST /oauth/refresh-token with its rate  *)
(* limiter, and POST /webhook with its background fan-out.                 *)
(*                                                                         *)
(* Conventions.  A JavaScript string is a sequence of character codes, a   *)
(* byte array a sequence of 0..255, a base64 string a sequence of alphabet *)
(* indices 0..63 with 64 for the padding character.  A JavaScript object   *)
(* is a function from its keys; a key whose value is undefined is left out *)
(* of the domain (what JSON.stringify and deep equality do with it).       *)
(***************************************************************************)
EXTENDS Integers, Sequences, FiniteSets, TLC

VARIABLES
  \* the cipher (utils/crypto.ts)
  encryptionKey,   \* TokenEncryption.encryptionKey of each instance (NoKey: not derived)
  rng,             \* number of crypto.getRandomValues draws made so far
  encLog,          \* the encryptToken calls so far: [token, enc, by (the instance)]
  cToken,          \* the token of the record under test
  cEnc,            \* the record under test: an EncryptedOAuthToken
  cKind,           \* who wrote it: "none", "new" (encryptToken), "legacy", "hybrid"
  cDec             \* what decryptToken made of it: [done, ok, value, by (the instance)]

cryptoVars == <<encryptionKey, rng, encLog, cToken, cEnc, cKind, cDec>>

VARIABLES
  \* the clock
  now,             \* Date.now(), in ms
  \* the token store (services/KVOAuthStorage.ts)
  OAUTH_TOKENS,    \* the KV namespace: workspace -> entry under oauth:token:<workspace>
  spc,             \* where each caller of the store is
  sloc,            \* getToken's local: [w, data], between its read and its decryption
  sres,            \* what the last call of each caller returned
  selfHealed,      \* workspaces whose record a getToken deleted, with no write since
  corrupted,       \* workspaces whose stored record was corrupted after it was written
  gSaved           \* per workspace: the token of the last write of its record still in
                   \* effect, [has, token]; has is FALSE when there was no write by
                   \* this worker or the record was deleted since

storeVars == <<OAUTH_TOKENS, spc, sloc, sres, selfHealed, corrupted, gSaved>>

VARIABLES
  \* POST /oauth/refresh-token (index.ts) and OAuthService.refreshToken
  OAUTH_STATE,      \* the KV namespace: workspace -> entry under rate_limit:refresh:<workspace>
  rpc,              \* where each request handler is
  rloc,             \* its locals: workspaceId, now, the rate-limit record it read
  rresp,            \* the response to the last request it handled
  refreshPromises,  \* the dedup map of the process: workspace -> the pending flight
  flight,           \* the flight each handler started: [state, w, attempt, id]
  attached,         \* the flight each handler awaits
  gWin,             \* per workspace: start of the current window, requests in it so far,
                    \* and the times of the requests admitted so far
  nreq,             \* requests received so far
  nticks            \* clock steps taken so far

refreshVars == <<OAUTH_STATE, rpc, rloc, rresp, refreshPromises, flight, attached,
                 gWin, nreq, nticks>>

VARIABLES
  \* POST /webhook (index.ts), WebhookReceiver and WebhookSender
  wh,               \* each webhook request: [pc, req, resp, awaits]
  bg,               \* the task each webhook handed to ctx.waitUntil: [state, event,
                    \* pending, count] and, for the record, the endpoints looked up
  nwh               \* webhook requests received so far

webhookVars == <<wh, bg, nwh>>

VARIABLES
  \* POST /edge/register (index.ts) and EdgeWorkerRegistry
  registry,         \* the registrations: records [workspaceId, endpointUrl, credential,
                    \* registeredAt, lastSeenAt]
  eresp             \* the response to the last registration request

edgeVars == <<registry, eresp>>

VARIABLES
  \* GET /oauth/authorize and GET /oauth/callback (index.ts) and OAuthService
  oauth             \* [pc, state (of the callback at hand or the last one), resp,
                    \* issued and accepted (the state values so far), exchanges and
                    \* saved (the code exchanges and token saves so far), ncb]

oauthVars == <<oauth>>

vars == <<cryptoVars, now, storeVars, refreshVars, webhookVars, edgeVars, oauthVars>>

\* ------------------------------------------------------------------ objects

Has(o, k) == k \in DOMAIN o

\* { ...o, ...upd }
Spread(o, upd) ==
  [k \in (DOMAIN o) \cup (DOMAIN upd) |-> IF k \in DOMAIN upd THEN upd[k] ELSE o[k]]

\* o without the keys ks (keys assigned undefined)
Without(o, ks) == [k \in (DOMAIN o) \ ks |-> o[k]]

RECURSIVE SumSeq(_)
SumSeq(s) == IF s = <<>> THEN 0 ELSE Head(s) + SumSeq(Tail(s))

\* ------------------------------------------------------- text and base64

\* TextEncoder.encode: UTF-8, for code points below 2048
RECURSIVE TextEncode(_)
TextEncode(s) ==
  IF s = <<>> THEN <<>>
  ELSE LET c == Head(s) IN
       (IF c < 128 THEN <<c>> ELSE <<192 + (c \div 64), 128 + (c % 64)>>)
         \o TextEncode(Tail(s))

\* TextDecoder.decode: UTF-8, a malformed sequence decodes to U+FFFD
RECURSIVE TextDecode(_)
TextDecode(b) ==
  IF b = <<>> THEN <<>>
  ELSE LET x == Head(b) IN
       IF x < 128 THEN <<x>> \o TextDecode(Tail(b))
       ELSE IF x >= 194 /\ x < 224 /\ Len(b) >= 2 /\ b[2] >= 128 /\ b[2] < 192
            THEN <<(x - 192) * 64 + (b[2] - 128)>> \o TextDecode(Tail(Tail(b)))
            ELSE <<65533>> \o TextDecode(Tail(b))

B64Pad == 64

\* btoa(String.fromCharCode(...bytes))
RECURSIVE arrayBufferToBase64(_)
arrayBufferToBase64(bytes) ==
  IF bytes = <<>> THEN <<>>
  ELSE IF Len(bytes) = 1
       THEN <<bytes[1] \div 4, (bytes[1] % 4) * 16, B64Pad, B64Pad>>
  ELSE IF Len(bytes) = 2
       THEN <<bytes[1] \div 4, (bytes[1] % 4) * 16 + (bytes[2] \div 16),
              (bytes[2] % 16) * 4, B64Pad>>
  ELSE <<bytes[1] \div 4, (bytes[1] % 4) * 16 + (bytes[2] \div 16),
         (bytes[2] % 16) * 4 + (bytes[3] \div 64), bytes[3] % 64>>
         \o arrayBufferToBase64(SubSeq(bytes, 4, Len(bytes)))

\* atob accepts a string of whole groups of four, padded only at the end
RECURSIVE ValidBase64(_)
ValidBase64(s) ==
  IF s = <<>> THEN TRUE
  ELSE /\ Len(s) >= 4
       /\ s[1] < B64Pad /\ s[2] < B64Pad
       /\ IF Len(s) = 4
          THEN s[3] = B64Pad => s[4] = B64Pad
          ELSE s[3] < B64Pad /\ s[4] < B64Pad /\ ValidBase64(SubSeq(s, 5, Len(s)))

\* atob, then charCodeAt of every character (defined on ValidBase64 strings)
RECURSIVE base64ToArrayBuffer(_)
base64ToArrayBuffer(s) ==
  IF s = <<>> THEN <<>>
  ELSE LET b1 == s[1] * 4 + (s[2] \div 16)
           b2 == (s[2] % 16) * 16 + (s[3] \div 4)
           b3 == (s[3] % 4) * 64 + s[4]
       IN  IF s[3] = B64Pad THEN <<b1>>
           ELSE IF s[4] = B64Pad THEN <<b1, b2>>
           ELSE <<b1, b2, b3>> \o base64ToArrayBuffer(SubSeq(s, 5, Len(s)))

\* ------------------------------------------------------------ the cipher
\* crypto.subtle is modelled by a toy cipher with the properties the code
\* relies on: decrypt inverts encrypt under the same key and nonce, and a
\* different key, a different nonce or a changed ciphertext fails the tag.

Pbkdf2Iterations == 100000

KeyBits == 256

\* encoder.encode("cyrus-oauth-salt-v1")
Salt == <<99, 121, 114, 117, 115, 45, 111, 97, 117, 116, 104, 45, 115, 97,
          108, 116, 45, 118, 49>>

\* crypto.subtle.deriveBits (PBKDF2, SHA-256): a function of secret and salt
DeriveBits(secret, salt, iterations, bits) ==
  (SumSeq(TextEncode(secret)) * 31 + SumSeq(salt) * 7 + iterations + bits) % 65536

\* this.encryptionKey = null
NoKey == -1

\* getEncryptionKey: the memoised key, derived on first use
getEncryptionKey(memo, secretKey) ==
  IF memo = NoKey THEN DeriveBits(secretKey, Salt, Pbkdf2Iterations, KeyBits)
  ELSE memo

IvLen == 12

\* crypto.getRandomValues(new Uint8Array(12)): the n-th draw of the generator.
\* The generator is taken to be ideal: no two draws return the same bytes.
RandomIv(n) == [i \in 1..IvLen |-> IF i = 1 THEN n % 256 ELSE (n \div 256) % 256]

GcmTag(key, iv, body) == (key * 3 + SumSeq(iv) * 13 + SumSeq(body) + Len(body)) % 256

KeyStream(key, iv, i) == (key + SumSeq(iv) * 5 + i) % 256

\* crypto.subtle.encrypt({name: "AES-GCM", iv}, key, data): body, then tag
AesGcmEncrypt(key, iv, data) ==
  LET body == [i \in 1..Len(data) |-> (data[i] + KeyStream(key, iv, i)) % 256]
  IN  body \o <<GcmTag(key, iv, body)>>

\* crypto.subtle.decrypt: rejects (ok = FALSE) when the tag does not verify
AesGcmDecrypt(key, iv, buf) ==
  IF Len(buf) < 1 THEN [ok |-> FALSE, data |-> <<>>]
  ELSE LET body == SubSeq(buf, 1, Len(buf) - 1) IN
       IF buf[Len(buf)] # GcmTag(key, iv, body) THEN [ok |-> FALSE, data |-> <<>>]
       ELSE [ok |-> TRUE,
             data |-> [i \in 1..Len(body) |->
                         (body[i] + 256 - KeyStream(key, iv, i)) % 256]]

\* a string-valued key that is present and not the empty string
Truthy(o, k) == Has(o, k) /\ o[k] # <<>>

\* TokenEncryption.encryptToken, given the key and the two nonces it drew
encryptToken(token, key, accessTokenIv, refreshTokenIv) ==
  LET encryptedAccessToken ==
        AesGcmEncrypt(key, accessTokenIv, TextEncode(token["accessToken"]))
      base == Spread(token,
                [accessToken |-> arrayBufferToBase64(encryptedAccessToken),
                 iv |-> arrayBufferToBase64(accessTokenIv),
                 refreshTokenIv |-> arrayBufferToBase64(refreshTokenIv)])
  IN  IF Truthy(token, "refreshToken")
      THEN Spread(base,
             [refreshToken |-> arrayBufferToBase64(
                AesGcmEncrypt(key, refreshTokenIv, TextEncode(token["refreshToken"])))])
      ELSE Without(base, {"refreshToken"})

Thrown == [ok |-> FALSE, value |-> <<>>]

\* the nonce decryptToken uses for the refresh token, without the fallback
RefreshTokenIvOf_NoFallback(encrypted, accessTokenIv) ==
  IF Truthy(encrypted, "refreshTokenIv")
  THEN base64ToArrayBuffer(encrypted["refreshTokenIv"])
  ELSE <<>>

\* the nonce decryptToken uses for the refresh token
RefreshTokenIvOf(encrypted, accessTokenIv) ==
  IF Truthy(encrypted, "refreshTokenIv")
  THEN base64ToArrayBuffer(encrypted["refreshTokenIv"])
  ELSE accessTokenIv

\* TokenEncryption.decryptToken: [ok |-> TRUE, value |-> the returned object],
\* or Thrown when atob or crypto.subtle.decrypt throws
decryptToken(encrypted, key) ==
  IF ~(Has(encrypted, "iv") /\ ValidBase64(encrypted["iv"])) THEN Thrown
  ELSE IF Truthy(encrypted, "refreshTokenIv") /\ ~ValidBase64(encrypted["refreshTokenIv"])
       THEN Thrown
  ELSE IF ~(Has(encrypted, "accessToken") /\ ValidBase64(encrypted["accessToken"]))
       THEN Thrown
  ELSE
    LET accessTokenIv == base64ToArrayBuffer(encrypted["iv"])
        refreshTokenIv == RefreshTokenIvOf(encrypted, accessTokenIv)
        decryptedAccessToken ==
          AesGcmDecrypt(key, accessTokenIv, base64ToArrayBuffer(encrypted["accessToken"]))
    IN  IF ~decryptedAccessToken.ok THEN Thrown
        ELSE IF ~Truthy(encrypted, "refreshToken")
             THEN [ok |-> TRUE,
                   value |-> Without(
                     Spread(encrypted,
                            [accessToken |-> TextDecode(decryptedAccessToken.data)]),
                     {"refreshToken"})]
        ELSE IF ~ValidBase64(encrypted["refreshToken"]) THEN Thrown
        ELSE LET decryptedRefreshToken ==
                   AesGcmDecrypt(key, refreshTokenIv,
                                 base64ToArrayBuffer(encrypted["refreshToken"]))
             IN  IF ~decryptedRefreshToken.ok THEN Thrown
                 ELSE [ok |-> TRUE,
                       value |-> Spread(encrypted,
                         [accessToken |-> TextDecode(decryptedAccessToken.data),
                          refreshToken |-> TextDecode(decryptedRefreshToken.data)])]

\* A record as the writer before per-field nonces left it: one nonce, used
\* for both ciphertexts, and no refreshTokenIv
legacyEncryptToken(token, key, iv) ==
  Without(encryptToken(token, key, iv, iv), {"refreshTokenIv"})

\* ------------------------------------------------------------- the tokens

Workspaces == {"W1", "W2"}

\* env.ENCRYPTION_KEY
SecretKey == <<107, 49>>

\* the TokenEncryption instances built from env.ENCRYPTION_KEY
Instances == {1, 2}

\* 0 stands for a token without expiresAt
MkToken(at, rt, exp, w) ==
  LET t == [accessToken |-> at, refreshToken |-> rt, expiresAt |-> exp,
            obtainedAt |-> 1000, scope |-> <<"read", "write">>,
            workspaceId |-> w]
  IN  Without(t, (IF rt = <<>> THEN {"refreshToken"} ELSE {})
                   \cup (IF exp = 0 THEN {"expiresAt"} ELSE {}))

CryptoTokens ==
  {MkToken(at, rt, exp, "W1") :
     at \in {<<97>>, <<116, 233>>}, rt \in {<<>>, <<114>>, <<97>>}, exp \in {5000}}

NoObj == <<>>

NotDecrypted == [done |-> FALSE, ok |-> FALSE, value |-> NoObj, by |-> 0]

\* ------------------------------------------------- the cipher, as actions

MaxEncrypts == 2

CryptoInit ==
  /\ encryptionKey = [i \in Instances |-> NoKey]
  /\ rng = 0
  /\ encLog = <<>>
  /\ cToken = NoObj
  /\ cEnc = NoObj
  /\ cKind = "none"
  /\ cDec = NotDecrypted

\* the cipher on its own touches nothing else
CryptoFrame == UNCHANGED <<now, storeVars, refreshVars, webhookVars, edgeVars, oauthVars>>

\* instances that each derive their key with a salt of their own
KeyOf_OwnSalt(i) ==
  IF encryptionKey[i] = NoKey
  THEN DeriveBits(SecretKey, RandomIv(i), Pbkdf2Iterations, KeyBits)
  ELSE encryptionKey[i]

\* const key = await this.getEncryptionKey(), in instance i
KeyOf(i) == getEncryptionKey(encryptionKey[i], SecretKey)

\* the two nonces of one encryptToken call, drawn after n earlier draws
DrawIvs_Shared(n) == <<RandomIv(n + 1), RandomIv(n + 1)>>

DrawIvs(n) == <<RandomIv(n + 1), RandomIv(n + 2)>>

\* instance i encrypts token t
CEncrypt(i, t) ==
  /\ Len(encLog) < MaxEncrypts
  /\ LET ivs == DrawIvs(rng)
         enc == encryptToken(t, KeyOf(i), ivs[1], ivs[2])
     IN  /\ encLog' = Append(encLog, [token |-> t, enc |-> enc, by |-> i])
         /\ cEnc' = enc
  /\ encryptionKey' = [encryptionKey EXCEPT ![i] = KeyOf(i)]
  /\ rng' = rng + 2
  /\ cToken' = t
  /\ cKind' = "new"
  /\ cDec' = NotDecrypted
  /\ CryptoFrame

\* the key every instance derives from env.ENCRYPTION_KEY
WorkerKey == DeriveBits(SecretKey, Salt, Pbkdf2Iterations, KeyBits)

\* a record of the earlier format is read from storage: both ciphertexts
\* under one nonce, refreshTokenIv absent
CLegacyRecord(t) ==
  /\ cEnc' = legacyEncryptToken(t, WorkerKey, RandomIv(201))
  /\ cToken' = t
  /\ cKind' = "legacy"
  /\ cDec' = NotDecrypted
  /\ UNCHANGED <<encryptionKey, rng, encLog>>
  /\ CryptoFrame

\* a record of the earlier format that was given a refreshTokenIv other than
\* the nonce its refresh-token ciphertext was made with
CHybridRecord ==
  /\ cKind = "legacy"
  /\ cEnc' = Spread(cEnc, [refreshTokenIv |-> arrayBufferToBase64(RandomIv(202))])
  /\ cKind' = "hybrid"
  /\ cDec' = NotDecrypted
  /\ UNCHANGED <<encryptionKey, rng, encLog, cToken>>
  /\ CryptoFrame

\* instance i decrypts the record under test
CDecrypt(i) ==
  /\ cKind # "none"
  /\ ~cDec.done
  /\ LET r == decryptToken(cEnc, KeyOf(i))
     IN  cDec' = [done |-> TRUE, ok |-> r.ok, value |-> r.value, by |-> i]
  /\ encryptionKey' = [encryptionKey EXCEPT ![i] = KeyOf(i)]
  /\ UNCHANGED <<rng, encLog, cToken, cEnc, cKind>>
  /\ CryptoFrame

NextCrypto ==
  \/ \E i \in Instances, t \in CryptoTokens : CEncrypt(i, t)
  \/ \E t \in CryptoTokens : CLegacyRecord(t)
  \/ CHybridRecord
  \/ \E i \in Instances : CDecrypt(i)

\* ------------------------------------------------------------ the KV store
\* env.OAUTH_TOKENS and env.OAUTH_STATE: get, put with expirationTtl, delete.
\* An entry put with a TTL of n seconds is gone n * 1000 ms after the put.

NoTtl == -1

NoData == [kind |-> "none", obj |-> NoObj]

KvAbsent == [present |-> FALSE, data |-> NoData, ttl |-> NoTtl, putAt |-> 0]

KvLive(e, t) == e.present /\ (e.ttl # NoTtl => t < e.putAt + e.ttl * 1000)

\* kv.get(key): the stored string, or null
KvGet(kv, k, t) == IF KvLive(kv[k], t) THEN kv[k].data ELSE NoData

\* a put that keeps the value of a key that has one
KvPut_IfAbsent(kv, k, data, ttl, t) ==
  IF kv[k].present THEN kv
  ELSE [kv EXCEPT ![k] = [present |-> TRUE, data |-> data, ttl |-> ttl, putAt |-> t]]

\* kv.put(key, value, {expirationTtl: ttl})
KvPut_EveryKey(kv, k, data, ttl, t) ==
  [x \in DOMAIN kv |-> [present |-> TRUE, data |-> data, ttl |-> ttl, putAt |-> t]]

KvPut(kv, k, data, ttl, t) ==
  [kv EXCEPT ![k] = [present |-> TRUE, data |-> data, ttl |-> ttl, putAt |-> t]]

\* a delete that leaves a marker behind when there was nothing to delete
KvDelete_Marks(kv, k) ==
  [kv EXCEPT ![k] = IF kv[k].present THEN KvAbsent ELSE [KvAbsent EXCEPT !.present = TRUE]]

\* kv.delete(key)
KvDelete(kv, k) == [kv EXCEPT ![k] = KvAbsent]

JSONstringify(o) == [kind |-> "json", obj |-> o]

\* JSON.parse throws on a string that is not JSON
JSONparses(data) == data.kind = "json"

Max(a, b) == IF a >= b THEN a ELSE b

\* ---------------------------------------------------------- KVOAuthStorage

\* the callers of the store, and those that run one call after another
AllStoreCallers == {1, 2}

StoreCallers == {1}

\* the tokens saved: without refresh token and expiry, and with both
StoreTokens(w) ==
  {MkToken(<<97>>, <<>>, 0, w)}
    \cup {MkToken(<<116, 233>>, <<114>>, exp, w) : exp \in {0, 1500, 3000} \ {0}}

MaxSaves == 2

StoreHorizon == 2002

NoResult == [op |-> "none", w |-> "", ret |-> "none", value |-> NoObj,
             decrypted |-> FALSE, failed |-> FALSE, afterHeal |-> FALSE,
             found |-> FALSE]

StoreCallInit ==
  /\ now = 0
  /\ spc = [h \in AllStoreCallers |-> "idle"]
  /\ sloc = [h \in AllStoreCallers |-> [w |-> "", data |-> NoData]]
  /\ sres = [h \in AllStoreCallers |-> NoResult]
  /\ selfHealed = {}
  /\ corrupted = {}
  /\ gSaved = [w \in Workspaces |-> [has |-> FALSE, token |-> NoObj]]

StoreInit ==
  /\ OAUTH_TOKENS = [w \in Workspaces |-> KvAbsent]
  /\ StoreCallInit

\* the expirationTtl saveToken passes, without the floor of one second
SaveTtl_NoMinimum(tokenData, t) ==
  IF Has(tokenData, "expiresAt") /\ tokenData["expiresAt"] # 0
  THEN (tokenData["expiresAt"] - t) \div 1000
  ELSE NoTtl

\* the expirationTtl saveToken passes
SaveTtl(tokenData, t) ==
  IF Has(tokenData, "expiresAt") /\ tokenData["expiresAt"] # 0
  THEN Max(1, (tokenData["expiresAt"] - t) \div 1000)
  ELSE NoTtl

\* KVOAuthStorage.saveToken(w, tokenData), by caller h
SaveToken(h, w, tokenData) ==
  /\ spc[h] = "idle"
  /\ rng < 2 * MaxSaves
  /\ LET ivs == DrawIvs(rng)
         encrypted == encryptToken(tokenData, KeyOf(h), ivs[1], ivs[2])
     IN  OAUTH_TOKENS' = KvPut(OAUTH_TOKENS, w, JSONstringify(encrypted),
                               SaveTtl(tokenData, now), now)
  /\ rng' = rng + 2
  /\ encryptionKey' = [encryptionKey EXCEPT ![h] = KeyOf(h)]
  /\ sres' = [sres EXCEPT ![h] = [NoResult EXCEPT !.op = "save", !.w = w, !.ret = "void"]]
  /\ selfHealed' = selfHealed \ {w}
  /\ corrupted' = corrupted \ {w}
  /\ gSaved' = [gSaved EXCEPT ![w] = [has |-> TRUE, token |-> tokenData]]
  /\ UNCHANGED <<now, spc, sloc, encLog, cToken, cEnc, cKind, cDec, refreshVars, webhookVars, edgeVars, oauthVars>>

\* KVOAuthStorage.getToken(w), by caller h: the read
GetTokenRead(h, w) ==
  /\ spc[h] = "idle"
  /\ LET data == KvGet(OAUTH_TOKENS, w, now) IN
     IF data.kind = "none"
     THEN /\ sres' = [sres EXCEPT ![h] =
                       [NoResult EXCEPT !.op = "get", !.w = w, !.ret = "null",
                                        !.afterHeal = (w \in selfHealed)]]
          /\ UNCHANGED <<spc, sloc>>
     ELSE /\ spc' = [spc EXCEPT ![h] = "get:decrypt"]
          /\ sloc' = [sloc EXCEPT ![h] = [w |-> w, data |-> data]]
          /\ sres' = [sres EXCEPT ![h] =
                       [NoResult EXCEPT !.op = "get", !.w = w, !.ret = "pending",
                                        !.afterHeal = (w \in selfHealed)]]
  /\ UNCHANGED <<now, OAUTH_TOKENS, selfHealed, corrupted, gSaved, cryptoVars, refreshVars, webhookVars, edgeVars, oauthVars>>

\* a decryption that always throws
ParseAndDecrypt_Throws(data, key) == Thrown

\* JSON.parse(data), then decryptToken
ParseAndDecrypt(data, key) ==
  IF JSONparses(data) THEN decryptToken(data.obj, key) ELSE Thrown

\* the store after getToken's catch block, without the delete
CatchCleanup_NoDelete(kv, w) == kv

\* the store after getToken's catch block: this.deleteToken(workspaceId)
CatchCleanup(kv, w) == KvDelete(kv, w)

\* getToken, after the read: decrypt and return, or delete and return null
GetTokenDecrypt(h) ==
  /\ spc[h] = "get:decrypt"
  /\ LET w == sloc[h].w
         r == ParseAndDecrypt(sloc[h].data, KeyOf(h))
     IN  IF r.ok
         THEN /\ sres' = [sres EXCEPT ![h].ret = "token", ![h].value = r.value,
                                      ![h].decrypted = TRUE]
              /\ UNCHANGED <<OAUTH_TOKENS, selfHealed, corrupted, gSaved>>
         ELSE /\ sres' = [sres EXCEPT ![h].ret = "null", ![h].decrypted = TRUE,
                                      ![h].failed = TRUE]
              /\ OAUTH_TOKENS' = CatchCleanup(OAUTH_TOKENS, w)
              /\ selfHealed' = selfHealed \cup {w}
              /\ corrupted' = IF OAUTH_TOKENS'[w].present THEN corrupted
                              ELSE corrupted \ {w}
              /\ gSaved' = IF OAUTH_TOKENS'[w].present THEN gSaved
                           ELSE [gSaved EXCEPT ![w] = [has |-> FALSE, token |-> NoObj]]
  /\ encryptionKey' = [encryptionKey EXCEPT ![h] = KeyOf(h)]
  /\ spc' = [spc EXCEPT ![h] = "idle"]
  /\ sloc' = [sloc EXCEPT ![h] = [w |-> "", data |-> NoData]]
  /\ UNCHANGED <<now, rng, encLog, cToken, cEnc, cKind, cDec, refreshVars, webhookVars, edgeVars, oauthVars>>

\* KVOAuthStorage.deleteToken(w), by caller h
DeleteToken(h, w) ==
  /\ spc[h] = "idle"
  /\ OAUTH_TOKENS' = KvDelete(OAUTH_TOKENS, w)
  /\ sres' = [sres EXCEPT ![h] = [NoResult EXCEPT !.op = "delete", !.w = w, !.ret = "void",
                                                  !.found = OAUTH_TOKENS[w].present]]
  /\ corrupted' = corrupted \ {w}
  /\ gSaved' = [gSaved EXCEPT ![w] = [has |-> FALSE, token |-> NoObj]]
  /\ UNCHANGED <<now, spc, sloc, selfHealed, cryptoVars, refreshVars, webhookVars, edgeVars, oauthVars>>

\* the stored string after a corruption of the given kind
Corrupt(data, c) ==
  IF c = "bytes" THEN [kind |-> "garbage", obj |-> NoObj]
  ELSE IF c = "nonce"
       THEN JSONstringify(Spread(data.obj, [iv |-> arrayBufferToBase64(RandomIv(202))]))
  ELSE LET f == IF c = "refresh" THEN "refreshToken" ELSE "accessToken"
           old == data.obj[f]
       IN  JSONstringify(Spread(data.obj,
             [g \in {f} |-> [old EXCEPT ![1] = (old[1] + 1) % 64]]))

\* the stored record of w is corrupted (its TTL stays)
CorruptRecord(w, c) ==
  /\ KvLive(OAUTH_TOKENS[w], now)
  /\ ParseAndDecrypt(OAUTH_TOKENS[w].data, WorkerKey).ok
  /\ c = "refresh" => Has(OAUTH_TOKENS[w].data.obj, "refreshToken")
  /\ OAUTH_TOKENS' = [OAUTH_TOKENS EXCEPT ![w].data = Corrupt(@, c)]
  /\ corrupted' = corrupted \cup {w}
  /\ UNCHANGED <<now, spc, sloc, sres, selfHealed, gSaved, cryptoVars, refreshVars, webhookVars, edgeVars, oauthVars>>

\* time passes
StoreTick(d) ==
  /\ now + d <= StoreHorizon
  /\ now' = now + d
  /\ UNCHANGED <<storeVars, cryptoVars, refreshVars, webhookVars, edgeVars, oauthVars>>

NextStore ==
  \/ \E h \in StoreCallers, w \in Workspaces : \E t \in StoreTokens(w) : SaveToken(h, w, t)
  \/ \E h \in StoreCallers, w \in Workspaces : GetTokenRead(h, w)
  \/ \E h \in StoreCallers : GetTokenDecrypt(h)
  \/ \E h \in StoreCallers, w \in Workspaces : DeleteToken(h, w)
  \/ \E w \in Workspaces, c \in {"ciphertext", "nonce", "bytes"} : CorruptRecord(w, c)
  \/ \E d \in {1001} : StoreTick(d)

\* getToken by caller 1 while caller 2 saves: two requests of the worker
\* handled at once, both on the record of W1
NextCleanup ==
  \/ \E t \in StoreTokens("W1") : SaveToken(2, "W1", t)
  \/ GetTokenRead(1, "W1")
  \/ GetTokenDecrypt(1)
  \/ \E c \in {"ciphertext", "bytes"} : CorruptRecord("W1", c)


\* the anti-forgery state values handleAuthorize generates; they share the
\* namespace env.OAUTH_STATE with the rate-limit records
OAuthStates == {"S1", "S2"}

\* ------------------------------------------ POST /oauth/refresh-token: data

windowMs == 60000

maxRequests == 10

CeilDiv(x, d) == -((-x) \div d)

\* a TTL that ends before the window does
RateTtl_Short == CeilDiv(windowMs, 1000) - 10

\* expirationTtl of a rate-limit record: Math.ceil(windowMs / 1000) + 10
RateTtl == CeilDiv(windowMs, 1000) + 10

Handlers == {1, 2}

NoFlight == 0

ErrInvalidRefreshToken == [isError |-> TRUE, message |-> "Invalid refresh token"]

ErrUpstream == [isError |-> TRUE, message |-> "Token refresh failed upstream"]

\* request.json() rejecting: a SyntaxError
ErrSyntax == [isError |-> TRUE, message |-> "Unexpected token in JSON"]

\* the phrases of error.message.includes(...)
Includes(message, phrase) ==
  \/ message = phrase
  \/ message = "Refresh token expired" /\ phrase = "expired"
  \/ message = "Rate limit exceeded" /\ phrase = "Rate limit"

\* the status the catch block chooses
ErrorStatus(error) ==
  IF ~error.isError THEN 500
  ELSE IF Includes(error.message, "No token found")
          \/ Includes(error.message, "No refresh token") THEN 404
  ELSE IF Includes(error.message, "Invalid refresh token")
          \/ Includes(error.message, "expired") THEN 401
  ELSE IF Includes(error.message, "Rate limit") THEN 429
  ELSE 500

\* a response: status, body (kind json or text; success, error, retryAfter,
\* token) and, for the record, the ordinal of the request in its rate-limit
\* window, the time and the window of the request, the flight that served
\* it and the upstream calls that flight made, the error that ended it and,
\* of a 200, the token in the body of the
\* run that differs from this one in the value of the stored refresh token
NoResponse == [status |-> 0, kind |-> "none", success |-> "absent", error |-> "",
               retryAfter |-> 0, token |-> NoObj, seqNo |-> 0, sentAt |-> 0,
               winStart |-> 0, fid |-> NoFlight, cause |-> "", twin |-> NoObj,
               calls |-> 0]

JsonResponse(status, success, error) ==
  [NoResponse EXCEPT !.status = status, !.kind = "json", !.success = success,
                     !.error = error]

\* new Response("Internal server error", {status: 500}) of the fetch handler
InternalServerError ==
  [NoResponse EXCEPT !.status = 500, !.kind = "text", !.error = "Internal server error"]

\* whether the name workspaceId, declared by const inside the try block,
\* is bound in the catch block that reads it
WorkspaceIdBoundInCatch == FALSE

\* the catch block of the route, then the try/catch of the fetch handler: the
\* catch block's first statement reads workspaceId, which throws a
\* ReferenceError when the name is not bound there
CatchBlock(error) ==
  [(IF WorkspaceIdBoundInCatch
    THEN JsonResponse(ErrorStatus(error), "false",
                      IF error.isError THEN error.message ELSE "Token refresh failed")
    ELSE InternalServerError)
   EXCEPT !.cause = error.message]

\* the 429 of the rate limiter
RateLimitResponse(windowStart, t) ==
  [JsonResponse(429, "absent",
                "Rate limit exceeded. Maximum 10 refresh requests per minute per workspace.")
   EXCEPT
     !.retryAfter = CeilDiv(windowStart + windowMs - t, 1000)]

\* a 200 that carries the whole token
SuccessResponse_WholeToken(refreshedToken) ==
  [JsonResponse(200, "true", "") EXCEPT !.token = refreshedToken]

\* the 200 of a refresh
SuccessResponse(refreshedToken) ==
  [JsonResponse(200, "true", "") EXCEPT
     !.token = [accessToken |-> refreshedToken["accessToken"],
                expiresAt |-> refreshedToken["expiresAt"],
                obtainedAt |-> refreshedToken["obtainedAt"]]]

NoFlightState == [state |-> "none", w |-> "", attempt |-> 0, id |-> 0, token |-> NoObj]

\* the token stored for a workspace when the worker starts: none, one
\* without refresh token, one with
InitialTokens(w) ==
  {KvAbsent,
   [KvAbsent EXCEPT !.present = TRUE,
      !.data = JSONstringify(encryptToken(MkToken(<<97>>, <<>>, 0, w), WorkerKey,
                                          RandomIv(101), RandomIv(102)))],
   [KvAbsent EXCEPT !.present = TRUE,
      !.data = JSONstringify(encryptToken(MkToken(<<97>>, <<114>>, 0, w), WorkerKey,
                                          RandomIv(103), RandomIv(104)))]}

RefreshInit ==
  /\ OAUTH_STATE = [k \in Workspaces \cup OAuthStates |-> KvAbsent]
  /\ rpc = [h \in Handlers |-> "idle"]
  /\ rloc = [h \in Handlers |-> [w |-> "", nowL |-> 0, data |-> NoData, req |-> 0]]
  /\ rresp = [h \in Handlers |-> NoResponse]
  /\ refreshPromises = [w \in Workspaces |-> NoFlight]
  /\ flight = [h \in Handlers |-> NoFlightState]
  /\ attached = [h \in Handlers |-> NoFlight]
  /\ gWin = [w \in Workspaces |-> [first |-> 0, count |-> 0, admitted |-> <<>>]]
  /\ nreq = 0
  /\ nticks = 0


\* ------------------------------------- POST /oauth/refresh-token: the route

\* the request arrives at handler h: request.json(), the workspaceId check,
\* Date.now() and the read of the rate-limit record
\* a route that takes a default workspace when the body names none
WorkspaceIdOf_Defaulted(body) == IF body \in Workspaces THEN body ELSE "W1"

\* const { workspaceId } = body: undefined, here "", when the body has none
WorkspaceIdOf(body) == IF body \in Workspaces THEN body ELSE ""

RefreshArrive(h, body, cap) ==
  /\ rpc[h] = "idle"
  /\ nreq < cap
  /\ nreq' = nreq + 1
  /\ IF body = "malformed"
     THEN /\ rresp' = [rresp EXCEPT ![h] = CatchBlock(ErrSyntax)]
          /\ UNCHANGED <<rpc, rloc>>
     ELSE IF WorkspaceIdOf(body) = ""
     THEN /\ rresp' = [rresp EXCEPT ![h] =
                         JsonResponse(400, "absent", "workspaceId is required")]
          /\ UNCHANGED <<rpc, rloc>>
     ELSE /\ rloc' = [rloc EXCEPT ![h] =
                        [w |-> WorkspaceIdOf(body), nowL |-> now,
                         data |-> KvGet(OAUTH_STATE, WorkspaceIdOf(body), now),
                         req |-> nreq + 1]]
          /\ rpc' = [rpc EXCEPT ![h] = "limit"]
          /\ rresp' = [rresp EXCEPT ![h] = NoResponse]
  /\ UNCHANGED <<OAUTH_STATE, refreshPromises, flight, attached, gWin,
                 nticks, now, cryptoVars, storeVars, webhookVars, edgeVars, oauthVars>>

\* the limiter that carries the stored count into a new window
RateLimit_CarriesCount(data, t) ==
  IF data.kind = "json"
  THEN [allowed |-> ~(data.obj.count + 1 > maxRequests),
        requestCount |-> data.obj.count + 1,
        windowStart |-> IF t - data.obj.windowStart < windowMs
                        THEN data.obj.windowStart ELSE t]
  ELSE [allowed |-> TRUE, requestCount |-> 1, windowStart |-> t]

\* the limiter without its rejection
RateLimit_NeverRejects(data, t) ==
  IF data.kind = "json" /\ t - data.obj.windowStart < windowMs
  THEN [allowed |-> TRUE, requestCount |-> data.obj.count + 1,
        windowStart |-> data.obj.windowStart]
  ELSE [allowed |-> TRUE, requestCount |-> 1, windowStart |-> t]

\* the limiter: requestCount and windowStart from the record read and the
\* time t, and whether the request is let through
RateLimit(data, t) ==
  IF data.kind = "json" /\ t - data.obj.windowStart < windowMs
  THEN [allowed |-> ~(data.obj.count + 1 > maxRequests),
        requestCount |-> data.obj.count + 1,
        windowStart |-> data.obj.windowStart]
  ELSE [allowed |-> TRUE, requestCount |-> 1, windowStart |-> t]

\* the ordinal of a request of time t in the window of its workspace, a
\* window being the windowMs from the first request admitted outside one
WindowOf(g, t) ==
  IF g.count > 0 /\ t - g.first < windowMs
  THEN [g EXCEPT !.count = g.count + 1]
  ELSE [g EXCEPT !.first = t, !.count = 1]

\* a route that answers 429 and goes on to the refresh
AfterRejection_FallsThrough == "call"

\* return new Response(..., {status: 429}): the handler ends there
AfterRejection == "idle"

\* a limiter that stores the count of a request it rejects
StoreAfterRejection_Counts(kv, w, r, t) ==
  KvPut(kv, w, JSONstringify([count |-> r.requestCount, windowStart |-> r.windowStart]),
        RateTtl, t)

\* the namespace after a rejection: the 429 is returned before the put, so
\* nothing is written
StoreAfterRejection(kv, w, r, t) == kv

\* a limiter that reads the record again in the step that writes it
rateLimitData_AtWrite(h) == KvGet(OAUTH_STATE, rloc[h].w, now)

\* const rateLimitData = await env.OAUTH_STATE.get(rateLimitKey): the record
\* the decision of handler h is made on is the one it read when it arrived
rateLimitData(h) == rloc[h].data

\* handler h, with the record read: 429, or the counter is written
RateLimitDecide(h) ==
  /\ rpc[h] = "limit"
  /\ LET w == rloc[h].w
         t == rloc[h].nowL
         r == RateLimit(rateLimitData(h), t)
         g == WindowOf(gWin[w], t)
         seen == [seqNo |-> g.count, sentAt |-> t, winStart |-> g.first]
     IN  IF ~r.allowed
         THEN /\ rresp' = [rresp EXCEPT ![h] =
                             Spread(RateLimitResponse(r.windowStart, t), seen)]
              /\ rpc' = [rpc EXCEPT ![h] = AfterRejection]
              /\ OAUTH_STATE' = StoreAfterRejection(OAUTH_STATE, w, r, now)
         ELSE /\ OAUTH_STATE' = KvPut(OAUTH_STATE, w,
                                      JSONstringify([count |-> r.requestCount,
                                                     windowStart |-> r.windowStart]),
                                      RateTtl, now)
              /\ rresp' = [rresp EXCEPT ![h] = Spread(NoResponse, seen)]
              /\ rpc' = [rpc EXCEPT ![h] = "call"]
  /\ gWin' = [gWin EXCEPT ![rloc[h].w] =
                 [WindowOf(gWin[rloc[h].w], rloc[h].nowL) EXCEPT
                    !.admitted = IF RateLimit(rateLimitData(h), rloc[h].nowL).allowed
                                 THEN Append(@, rloc[h].nowL) ELSE @]]
  /\ UNCHANGED <<rloc, refreshPromises, flight, attached, nreq, nticks,
                 now, cryptoVars, storeVars, webhookVars, edgeVars, oauthVars>>

\* the dedup lookup that finds nothing
PendingRefresh_Never(promises, w) == NoFlight

\* the pending flight of a workspace in the dedup map, if any
PendingRefresh(promises, w) == promises[w]

\* new OAuthService(env), oauthService.refreshToken(workspaceId): attach to
\* the pending flight of the workspace, or start one
RefreshStart(h) ==
  /\ rpc[h] = "call"
  /\ LET w == rloc[h].w
         pending == PendingRefresh(refreshPromises, w)
     IN  IF pending # NoFlight
         THEN /\ attached' = [attached EXCEPT ![h] = pending]
              /\ UNCHANGED <<flight, refreshPromises>>
         ELSE /\ attached' = [attached EXCEPT ![h] = h]
              /\ flight' = [flight EXCEPT ![h] =
                              [state |-> "load", w |-> w, attempt |-> 0,
                               id |-> rloc[h].req, token |-> NoObj]]
              /\ refreshPromises' = [refreshPromises EXCEPT ![w] = h]
  /\ rpc' = [rpc EXCEPT ![h] = "await"]
  /\ UNCHANGED <<OAUTH_STATE, rloc, rresp, gWin, nreq, nticks, now,
                 cryptoVars, storeVars, webhookVars, edgeVars, oauthVars>>

\* a dedup map whose entry is removed only when the flight succeeded
RemovePending_OnSuccessOnly(promises, o, response) ==
  IF response.cause = ""
  THEN [w \in Workspaces |->
          IF promises[w] = o /\ flight[o].w = w THEN NoFlight ELSE promises[w]]
  ELSE promises

\* the dedup map once the flight of owner o has completed with the given
\* outcome: its entry is removed, on success and on failure
RemovePending(promises, o, response) ==
  [w \in Workspaces |->
     IF promises[w] = o /\ flight[o].w = w THEN NoFlight ELSE promises[w]]

\* the flight of owner o settles: every handler awaiting it resumes with the
\* same outcome (a response), and the entry leaves the dedup map
Settle(o, response) ==
  /\ rresp' = [h \in Handlers |->
                 IF attached[h] = o /\ rpc[h] = "await"
                 THEN Spread(response,
                             [seqNo |-> rresp[h].seqNo, sentAt |-> rresp[h].sentAt,
                              winStart |-> rresp[h].winStart, fid |-> flight[o].id,
                              calls |-> flight[o].attempt])
                 ELSE rresp[h]]
  /\ rpc' = [h \in Handlers |->
               IF attached[h] = o /\ rpc[h] = "await" THEN "idle" ELSE rpc[h]]
  /\ attached' = [h \in Handlers |->
                    IF attached[h] = o /\ rpc[h] = "await" THEN NoFlight ELSE attached[h]]
  /\ flight' = [flight EXCEPT ![o] = NoFlightState]
  /\ refreshPromises' = RemovePending(refreshPromises, o, response)

MaxAttempts == 3

\* a catch block that gives the request back to the limiter
CounterAfterFailure_RolledBack(kv, w) ==
  IF kv[w].present
  THEN [kv EXCEPT ![w].data =
          JSONstringify([count |-> kv[w].data.obj.count - 1,
                         windowStart |-> kv[w].data.obj.windowStart])]
  ELSE kv

\* the namespace of the rate-limit records after the refresh of workspace w
\* failed: the catch block logs and answers, it writes nothing
CounterAfterFailure(kv, w) == kv

\* the flight reads the stored token: tokenStorage.getToken(workspaceId)
FlightLoad(o) ==
  /\ flight[o].state = "load"
  /\ LET w == flight[o].w
         data == KvGet(OAUTH_TOKENS, w, now)
         r == ParseAndDecrypt(data, WorkerKey)
     IN  IF data.kind = "none"
         THEN /\ Settle(o, CatchBlock([isError |-> TRUE, message |-> "No token found"]))
              /\ OAUTH_STATE' = CounterAfterFailure(OAUTH_STATE, w)
              /\ UNCHANGED <<OAUTH_TOKENS, gSaved>>
         ELSE IF ~r.ok
         THEN /\ Settle(o, CatchBlock([isError |-> TRUE, message |-> "No token found"]))
              /\ OAUTH_STATE' = CounterAfterFailure(OAUTH_STATE, w)
              /\ OAUTH_TOKENS' = CatchCleanup(OAUTH_TOKENS, w)
              /\ gSaved' = IF OAUTH_TOKENS'[w].present THEN gSaved
                           ELSE [gSaved EXCEPT ![w] = [has |-> FALSE, token |-> NoObj]]
         ELSE IF ~Truthy(r.value, "refreshToken")
         THEN /\ Settle(o, CatchBlock([isError |-> TRUE, message |-> "No refresh token"]))
              /\ OAUTH_STATE' = CounterAfterFailure(OAUTH_STATE, w)
              /\ UNCHANGED <<OAUTH_TOKENS, gSaved>>
         ELSE /\ flight' = [flight EXCEPT ![o].state = "upstream", ![o].attempt = 1,
                                          ![o].token = r.value]
              /\ UNCHANGED <<OAUTH_STATE, OAUTH_TOKENS, gSaved, rresp, rpc, attached,
                             refreshPromises>>
  /\ UNCHANGED <<rloc, gWin, nreq, nticks, now, cryptoVars,
                 spc, sloc, sres, selfHealed, corrupted, webhookVars, edgeVars, oauthVars>>

ExpiresInMs == 3600000

\* the token made at time t of the upstream's answer, which carries a new
\* access token and no refresh token: the stored refresh token is kept
RefreshedToken(w, t, old) ==
  [accessToken |-> <<110>>, refreshToken |-> old["refreshToken"],
   expiresAt |-> t + ExpiresInMs, obtainedAt |-> t, scope |-> <<"read", "write">>,
   workspaceId |-> w]

\* the token held by the run that differs from this one in the value of the
\* stored refresh token
TwinToken(token) ==
  Spread(token, [refreshToken |-> IF token["refreshToken"] = <<114>> THEN <<115>>
                                   ELSE <<114>>])

MaxRefreshed == 2

\* the upstream answers 200: the new token is saved and returned
UpstreamOk(o) ==
  /\ flight[o].state = "upstream"
  /\ rng < 2 * MaxRefreshed
  /\ LET w == flight[o].w
         tokenData == RefreshedToken(w, now, flight[o].token)
         twinData == RefreshedToken(w, now, TwinToken(flight[o].token))
         ivs == DrawIvs(rng)
     IN  /\ OAUTH_TOKENS' = KvPut(OAUTH_TOKENS, w,
                                  JSONstringify(encryptToken(tokenData, WorkerKey,
                                                             ivs[1], ivs[2])),
                                  SaveTtl(tokenData, now), now)
         /\ gSaved' = [gSaved EXCEPT ![w] = [has |-> TRUE, token |-> tokenData]]
         /\ Settle(o, [SuccessResponse(tokenData) EXCEPT
                          !.twin = SuccessResponse(twinData).token])
  /\ rng' = rng + 2
  /\ UNCHANGED <<OAUTH_STATE, rloc, gWin, nreq, nticks, now,
                 encryptionKey, encLog, cToken, cEnc, cKind, cDec,
                 spc, sloc, sres, selfHealed, corrupted, webhookVars, edgeVars, oauthVars>>

\* the upstream answers 4xx other than 429: no retry
UpstreamRejects(o) ==
  /\ flight[o].state = "upstream"
  /\ Settle(o, CatchBlock(ErrInvalidRefreshToken))
  /\ OAUTH_STATE' = CounterAfterFailure(OAUTH_STATE, flight[o].w)
  /\ UNCHANGED <<rloc, gWin, nreq, nticks, now,
                 cryptoVars, storeVars, webhookVars, edgeVars, oauthVars>>

\* a retry policy without an attempt budget
ShouldRetry_Always(attempt) == TRUE

\* whether a failed attempt is followed by another one
ShouldRetry(attempt) == attempt < MaxAttempts

\* the upstream answers 5xx or 429, or the call fails: retry, up to
\* MaxAttempts attempts in all
UpstreamFails(o) ==
  /\ flight[o].state = "upstream"
  /\ IF ShouldRetry(flight[o].attempt)
     THEN /\ flight' = [flight EXCEPT ![o].attempt = @ + 1]
          /\ UNCHANGED <<OAUTH_STATE, rresp, rpc, attached, refreshPromises>>
     ELSE /\ Settle(o, CatchBlock(ErrUpstream))
          /\ OAUTH_STATE' = CounterAfterFailure(OAUTH_STATE, flight[o].w)
  /\ UNCHANGED <<rloc, gWin, nreq, nticks, now, cryptoVars, storeVars, webhookVars,
                 edgeVars, oauthVars>>

\* time passes
RateTick(d, cap) ==
  /\ nticks < cap
  /\ nticks' = nticks + 1
  /\ now' = now + d
  /\ UNCHANGED <<OAUTH_STATE, rpc, rloc, rresp, refreshPromises, flight, attached,
                 gWin, nreq, cryptoVars, storeVars, webhookVars, edgeVars, oauthVars>>

\* requests of one workspace handled one after another, by one handler; the
\* clock advances between two requests, and between the read of the clock
\* and the write of the counter
MaxSeqRequests == 12

MaxSeqTicks == 1

NextRate ==
  \/ RefreshArrive(1, "W1", MaxSeqRequests)
  \/ RateLimitDecide(1)
  \/ RefreshStart(1)
  \/ FlightLoad(1)
  \/ UpstreamOk(1)
  \/ UpstreamRejects(1)
  \/ UpstreamFails(1)
  \/ \E d \in {59999, 60000} : rpc[1] \in {"idle", "limit"} /\ RateTick(d, MaxSeqTicks)

\* a long run of requests of one workspace that has no token stored, handled
\* one after another
MaxBurstRequests == 21

MaxBurstTicks == 1

NextBurst ==
  \/ RefreshArrive(1, "W1", MaxBurstRequests)
  \/ RateLimitDecide(1)
  \/ RefreshStart(1)
  \/ FlightLoad(1)
  \/ \E d \in {59999, 60000} : rpc[1] \in {"idle", "limit"} /\ RateTick(d, MaxBurstTicks)

\* the operations of the store and the requests of the route, one after
\* another, at one time
MaxFrameRequests == 2

NextFrame ==
  \/ \E w \in Workspaces : SaveToken(1, w, MkToken(<<97>>, <<>>, 0, w))
  \/ \E w \in Workspaces : GetTokenRead(1, w)
  \/ GetTokenDecrypt(1)
  \/ \E w \in Workspaces : DeleteToken(1, w)
  \/ CorruptRecord("W1", "bytes")
  \/ \E w \in Workspaces : RefreshArrive(1, w, MaxFrameRequests)
  \/ RateLimitDecide(1)
  \/ RefreshStart(1)
  \/ FlightLoad(1)

\* a long run of requests of one workspace that has no token stored, handled
\* by two handlers concurrently, at one time
MaxRaceRequests == 12

NextRace ==
  \/ \E h \in Handlers : RefreshArrive(h, "W1", MaxRaceRequests)
  \/ \E h \in Handlers : RateLimitDecide(h)
  \/ \E h \in Handlers : RefreshStart(h)
  \/ \E o \in Handlers : FlightLoad(o)

\* requests handled concurrently, at one time
MaxRequests == 3

NextRefresh ==
  \/ \E h \in Handlers, b \in {"malformed", "missing"} \cup Workspaces :
       RefreshArrive(h, b, MaxRequests)
  \/ \E h \in Handlers : RateLimitDecide(h)
  \/ \E h \in Handlers : RefreshStart(h)
  \/ \E o \in Handlers : FlightLoad(o)
  \/ \E o \in Handlers : UpstreamOk(o)
  \/ \E o \in Handlers : UpstreamRejects(o)
  \/ \E o \in Handlers : UpstreamFails(o)

\* a few requests of one workspace, handled concurrently, at one time
MaxFlightRequests == 2

NextFlight ==
  \/ \E h \in Handlers : RefreshArrive(h, "W1", MaxFlightRequests)
  \/ \E h \in Handlers : RateLimitDecide(h)
  \/ \E h \in Handlers : RefreshStart(h)
  \/ \E o \in Handlers : FlightLoad(o)
  \/ \E o \in Handlers : UpstreamOk(o)
  \/ \E o \in Handlers : UpstreamRejects(o)
  \/ \E o \in Handlers : UpstreamFails(o)

\* ------------------------------------------------- POST /webhook: the route

MaxWebhooks == 2

WebhookIds == 1 .. MaxWebhooks

Edges == {"E1", "E2"}

\* EdgeWorkerRegistry.listForWorkspace: the endpoints registered
listForWorkspace(records, w) ==
  {r.endpointUrl : r \in {x \in records : x.workspaceId = w}}

\* the requests the upstream sends: the signature header matches or not, the
\* body parses or not, the envelope carries an organizationId or not
WebhookRequests ==
  {[signed |-> FALSE, parses |-> TRUE, webhook |-> [type |-> "Issue", organizationId |-> "W1"]],
   [signed |-> TRUE, parses |-> FALSE, webhook |-> [type |-> ""]],
   [signed |-> TRUE, parses |-> TRUE, webhook |-> [type |-> "Issue"]]}
  \cup {[signed |-> TRUE, parses |-> TRUE,
         webhook |-> [type |-> "Issue", organizationId |-> w]] : w \in Workspaces}

NoWebhook == [pc |-> "none",
              req |-> [signed |-> FALSE, parses |-> FALSE, webhook |-> [type |-> ""]],
              resp |-> "none", awaits |-> 0]

NoTask == [state |-> "none", event |-> [type |-> "", workspaceId |-> ""],
           pending |-> {}, count |-> 0,
           targets |-> {}]

WebhookInit ==
  /\ wh = [id \in WebhookIds |-> NoWebhook]
  /\ bg = [id \in WebhookIds |-> NoTask]
  /\ nwh = 0

WebhookFrame == UNCHANGED <<cryptoVars, now, storeVars, refreshVars, edgeVars, oauthVars>>

\* a request reaches the route: new WebhookSender, new WebhookReceiver,
\* webhookReceiver.handleWebhook(request)
WebhookArrive(req) ==
  /\ nwh < MaxWebhooks
  /\ nwh' = nwh + 1
  /\ wh' = [wh EXCEPT ![nwh + 1] = [NoWebhook EXCEPT !.pc = "verify", !.req = req]]
  /\ UNCHANGED bg
  /\ WebhookFrame

\* handleWebhook: the signature, then the body; a verified webhook goes to
\* the callback
ReceiverVerify(id) ==
  /\ wh[id].pc = "verify"
  /\ wh' = [wh EXCEPT ![id] =
              IF ~wh[id].req.signed
              THEN [@ EXCEPT !.pc = "done", !.resp = "InvalidSignature"]
              ELSE IF ~wh[id].req.parses
              THEN [@ EXCEPT !.pc = "done", !.resp = "MalformedPayload"]
              ELSE [@ EXCEPT !.pc = "callback"]]
  /\ UNCHANGED <<bg, nwh>>
  /\ WebhookFrame

\* a callback that routes a webhook without organizationId to W1
OrganizationIdOf_Defaulted(webhook) ==
  IF Has(webhook, "organizationId") THEN webhook["organizationId"] ELSE "W1"

\* const workspaceId = webhook.organizationId: undefined, here "", when the
\* webhook carries none
OrganizationIdOf(webhook) ==
  IF Has(webhook, "organizationId") THEN webhook["organizationId"] ELSE ""

\* webhookSender.transformWebhookToEvent(webhook)
transformWebhookToEvent(webhook) ==
  [type |-> webhook["type"], workspaceId |-> OrganizationIdOf(webhook)]

\* a callback that awaits the task it starts
CallbackAwaits_Delivery(id) == id

\* the task whose completion the callback awaits before it returns: none,
\* the promise of sendWebhookToWorkspace goes to ctx.waitUntil, which
\* returns at once
CallbackAwaits(id) == 0

\* the callback given to the receiver
Callback(id) ==
  /\ wh[id].pc = "callback"
  /\ IF OrganizationIdOf(wh[id].req.webhook) = ""
     THEN /\ wh' = [wh EXCEPT ![id].pc = "ack"]
          /\ UNCHANGED bg
     ELSE /\ bg' = [bg EXCEPT ![id] =
                      [NoTask EXCEPT !.state = "lookup",
                                     !.event = transformWebhookToEvent(wh[id].req.webhook)]]
          /\ wh' = [wh EXCEPT ![id].pc = "ack", ![id].awaits = CallbackAwaits(id)]
  /\ UNCHANGED nwh
  /\ WebhookFrame

\* handleWebhook, the callback having returned: the acknowledgement
ReceiverAck(id) ==
  /\ wh[id].pc = "ack"
  /\ wh[id].awaits # 0 => bg[wh[id].awaits].state = "done"
  /\ wh' = [wh EXCEPT ![id].pc = "done", ![id].resp = "ack"]
  /\ UNCHANGED <<bg, nwh>>
  /\ WebhookFrame

\* sendWebhookToWorkspace: the registrations of the workspace
SenderLookup(id) ==
  /\ bg[id].state = "lookup"
  /\ LET targets == listForWorkspace(registry, bg[id].event.workspaceId)
     IN  bg' = [bg EXCEPT ![id].state = IF targets = {} THEN "done" ELSE "sending",
                          ![id].pending = targets,
                          ![id].targets = targets]
  /\ UNCHANGED <<wh, nwh>>
  /\ WebhookFrame

\* a fan-out that rejects as soon as one delivery fails
OnDeliveryFailure_Propagates == "reject"

\* what the fan-out does with a delivery that fails: it is logged and not
\* counted, and the other deliveries go on
OnDeliveryFailure == "continue"

\* one delivery ends, delivered or failed; the task ends with the last
Delivered(id, e, ok) ==
  /\ bg[id].state = "sending"
  /\ e \in bg[id].pending
  /\ bg' = IF ~ok /\ OnDeliveryFailure = "reject"
           THEN [bg EXCEPT ![id].state = "failed"]
           ELSE [bg EXCEPT ![id].pending = @ \ {e},
                           ![id].count = IF ok THEN @ + 1 ELSE @,
                           ![id].state = IF bg[id].pending = {e} THEN "done"
                                         ELSE "sending"]
  /\ UNCHANGED <<wh, nwh>>
  /\ WebhookFrame

\* a task whose rejection nothing handles
OnRejected_NoCatch == "unhandled"

\* .catch((error) => console.error("Failed to send webhook:", error)): the
\* rejection is handled and logged, and the task ends
OnRejected == "failed"

\* sendWebhookToWorkspace rejects
SenderRejects(id) ==
  /\ bg[id].state \in {"lookup", "sending"}
  /\ bg' = [bg EXCEPT ![id].state = OnRejected]
  /\ UNCHANGED <<wh, nwh>>
  /\ WebhookFrame

NextWebhook ==
  \/ \E req \in WebhookRequests : WebhookArrive(req)
  \/ \E id \in WebhookIds : ReceiverVerify(id)
  \/ \E id \in WebhookIds : Callback(id)
  \/ \E id \in WebhookIds : ReceiverAck(id)
  \/ \E id \in WebhookIds : SenderLookup(id)
  \/ \E id \in WebhookIds, e \in Edges, ok \in BOOLEAN : Delivered(id, e, ok)
  \/ \E id \in WebhookIds : SenderRejects(id)

\* the route with a fan-out that does not reject
NextDispatch ==
  \/ \E req \in WebhookRequests : WebhookArrive(req)
  \/ \E id \in WebhookIds : ReceiverVerify(id)
  \/ \E id \in WebhookIds : Callback(id)
  \/ \E id \in WebhookIds : ReceiverAck(id)
  \/ \E id \in WebhookIds : SenderLookup(id)
  \/ \E id \in WebhookIds, e \in Edges, ok \in BOOLEAN : Delivered(id, e, ok)

\* ------------------------------------------- POST /edge/register: the route

\* the bodies sent to the route: not JSON, a registration without
\* endpointUrl, a registration
RegistrationBodies ==
  {[parses |-> FALSE, registration |-> [workspaceId |-> ""]]}
  \cup {[parses |-> TRUE, registration |-> [workspaceId |-> w]] : w \in Workspaces}
  \cup {[parses |-> TRUE,
         registration |-> [workspaceId |-> w, endpointUrl |-> e, credential |-> c]] :
          w \in Workspaces, e \in Edges, c \in {"K1", "K2"}}

\* a response of the route: status, the error text of the body, the record
\* and the created flag of the body and, for the record, the message of the
\* error that was thrown
NoEdgeResponse == [status |-> 0, error |-> "",
                   record |-> [workspaceId |-> "", endpointUrl |-> "", credential |-> "",
                               registeredAt |-> 0, lastSeenAt |-> 0],
                   created |-> FALSE, cause |-> ""]

\* the catch block of the route
RegisterCatchBlock(error) ==
  [NoEdgeResponse EXCEPT !.status = 400,
                         !.error = IF error.isError THEN error.message
                                   ELSE "Registration failed",
                         !.cause = error.message]

\* the record stored for a registration received at time t
StoredRegistration(registration, t) ==
  [workspaceId |-> registration.workspaceId, endpointUrl |-> registration.endpointUrl,
   credential |-> registration.credential, registeredAt |-> t, lastSeenAt |-> t]

\* a registry that adds a record for every registration it receives
registerEdgeWorker_Appends(records, registration, t) ==
  [records |-> records \cup {StoredRegistration(registration, t)},
   record |-> StoredRegistration(registration, t),
   created |-> TRUE]

\* registry.registerEdgeWorker: upsert keyed by (workspaceId, endpointUrl)
registerEdgeWorker(records, registration, t) ==
  LET same == {r \in records : /\ r.workspaceId = registration.workspaceId
                               /\ r.endpointUrl = registration.endpointUrl}
  IN  [records |-> (records \ same) \cup {StoredRegistration(registration, t)},
       record |-> StoredRegistration(registration, t),
       created |-> same = {}]

EdgeInit ==
  /\ registry = UNION {{[workspaceId |-> w, endpointUrl |-> e, credential |-> "K1",
                           registeredAt |-> 0, lastSeenAt |-> 0] :
                           e \in IF w = "W1" THEN Edges ELSE {}} : w \in Workspaces}
  /\ eresp = NoEdgeResponse

\* a request reaches the route
EdgeRegister(body) ==
  /\ IF ~body.parses
     THEN /\ eresp' = RegisterCatchBlock(ErrSyntax)
          /\ UNCHANGED registry
     ELSE IF ~Has(body.registration, "endpointUrl")
     THEN /\ eresp' = RegisterCatchBlock([isError |-> TRUE, message |-> "endpointUrl is required"])
          /\ UNCHANGED registry
     ELSE LET result == registerEdgeWorker(registry, body.registration, now)
          IN  /\ registry' = result.records
              /\ eresp' = [NoEdgeResponse EXCEPT !.status = 200,
                                                 !.record = result.record,
                                                 !.created = result.created]
  /\ UNCHANGED <<cryptoVars, now, storeVars, refreshVars, webhookVars, oauthVars>>

NextRegister == \E body \in RegistrationBodies : EdgeRegister(body)

\* registrations of one workspace, the clock advancing between them
MaxRegistryTicks == 2

NextRegistry ==
  \/ \E body \in {b \in RegistrationBodies : b.registration.workspaceId \in {"", "W2"}} :
       EdgeRegister(body)
  \/ \E d \in {1000} : RateTick(d, MaxRegistryTicks)

\* ------------------------- GET /oauth/authorize, GET /oauth/callback
\* oauthService.handleAuthorize(request) and oauthService.handleCallback(request)

\* the lifetime of a persisted state value, in seconds
StateTtl == 600

MaxCallbacks == 3

MaxStateTicks == 1

OAuthInit ==
  oauth = [pc |-> "idle", state |-> "", resp |-> "none", issued |-> {}, accepted |-> {},
           exchanges |-> 0, saved |-> 0, ncb |-> 0]

OAuthFrame == UNCHANGED <<encryptionKey, encLog, cToken, cEnc, cKind, cDec, now,
                          spc, sloc, sres, selfHealed, corrupted,
                          rpc, rloc, rresp, refreshPromises, flight, attached, gWin,
                          nreq, nticks, webhookVars, edgeVars>>

\* handleAuthorize: a state value not generated before is persisted, keyed by
\* itself, with a short TTL
Authorize(s) ==
  /\ s \notin oauth.issued
  /\ OAUTH_STATE' = KvPut(OAUTH_STATE, s, JSONstringify([createdAt |-> now]), StateTtl, now)
  /\ oauth' = [oauth EXCEPT !.issued = @ \cup {s}]
  /\ UNCHANGED <<OAUTH_TOKENS, gSaved, rng>>
  /\ OAuthFrame

\* a validation that leaves the state value where it is
ConsumeState_Keeps(kv, s) == kv

\* the state value is deleted once it has been validated
ConsumeState(kv, s) == KvDelete(kv, s)

\* handleCallback: the state parameter is validated against the persisted
\* value; a missing or unknown one is rejected with InvalidState
CallbackValidate(s) ==
  /\ oauth.pc = "idle"
  /\ oauth.ncb < MaxCallbacks
  /\ IF s \in OAuthStates /\ KvGet(OAUTH_STATE, s, now).kind # "none"
     THEN /\ OAUTH_STATE' = ConsumeState(OAUTH_STATE, s)
          /\ oauth' = [oauth EXCEPT !.pc = "exchange", !.state = s, !.resp = "none",
                                    !.accepted = @ \cup {s}, !.ncb = @ + 1]
     ELSE /\ oauth' = [oauth EXCEPT !.state = s, !.resp = "InvalidState", !.ncb = @ + 1]
          /\ UNCHANGED OAUTH_STATE
  /\ UNCHANGED <<OAUTH_TOKENS, gSaved, rng>>
  /\ OAuthFrame

\* the token made of the upstream's answer to the code exchange
ExchangedToken(t) ==
  [accessToken |-> <<110>>, refreshToken |-> <<114>>, expiresAt |-> t + ExpiresInMs,
   obtainedAt |-> t, scope |-> <<"read", "write">>, workspaceId |-> "W1"]

\* handleCallback, the state accepted: the code is exchanged at the upstream
\* token endpoint and, if that succeeds, the token is saved
CallbackExchange(ok) ==
  /\ oauth.pc = "exchange"
  /\ IF ok
     THEN /\ OAUTH_TOKENS' = KvPut(OAUTH_TOKENS, "W1",
                                   JSONstringify(encryptToken(ExchangedToken(now), WorkerKey,
                                                              DrawIvs(rng)[1], DrawIvs(rng)[2])),
                                   SaveTtl(ExchangedToken(now), now), now)
          /\ rng' = rng + 2
          /\ gSaved' = [gSaved EXCEPT !["W1"] = [has |-> TRUE, token |-> ExchangedToken(now)]]
          /\ oauth' = [oauth EXCEPT !.pc = "idle", !.resp = "success",
                                    !.exchanges = @ + 1, !.saved = @ + 1]
     ELSE /\ oauth' = [oauth EXCEPT !.pc = "idle", !.resp = "authorization failed",
                                    !.exchanges = @ + 1]
          /\ UNCHANGED <<OAUTH_TOKENS, gSaved, rng>>
  /\ UNCHANGED OAUTH_STATE
  /\ OAuthFrame

\* authorizations and callbacks, one callback at a time; the clock may pass
\* the lifetime of a state value between two requests
NextOAuth ==
  \/ \E s \in OAuthStates : Authorize(s)
  \/ \E s \in ({""} \cup OAuthStates) : CallbackValidate(s)
  \/ \E ok \in BOOLEAN : CallbackExchange(ok)
  \/ RateTick(StateTtl * 1000, MaxStateTicks)

\* the worker starts with some tokens stored
InitRefresh ==
  /\ CryptoInit
  /\ StoreCallInit
  /\ OAUTH_TOKENS \in {f \in [Workspaces -> UNION {InitialTokens(w) : w \in Workspaces}] :
                         f["W1"] \in InitialTokens("W1") /\ f["W2"] = KvAbsent}
  /\ RefreshInit
  /\ WebhookInit
  /\ EdgeInit
  /\ OAuthInit

Init == CryptoInit /\ StoreInit /\ RefreshInit /\ WebhookInit /\ EdgeInit /\ OAuthInit

SpecCrypto == Init /\ [][NextCrypto]_vars

SpecStore == Init /\ [][NextStore]_vars

SpecCleanup == Init /\ [][NextCleanup]_vars

\* the worker starts with a refreshable token for W1 and none for W2
InitRate ==
  /\ InitRefresh
  /\ OAUTH_TOKENS["W1"].present
  /\ Truthy(ParseAndDecrypt(OAUTH_TOKENS["W1"].data, WorkerKey).value, "refreshToken")
  /\ ~OAUTH_TOKENS["W2"].present

SpecRate == InitRate /\ [][NextRate]_vars

SpecRefresh == InitRefresh /\ [][NextRefresh]_vars

\* a flight that can take a step takes one: the read of the stored token
\* returns (FlightLoad is the one step that leaves "load", and it is enabled
\* there), and every upstream call is answered or fails (a call that could
\* be answered 200 could also be rejected or fail)
FlightFairness ==
  \A o \in Handlers :
    /\ []<>(flight[o].state # "load")
    /\ WF_vars(UpstreamRejects(o) \/ UpstreamFails(o))

SpecFlight == InitRefresh /\ [][NextFlight]_vars /\ FlightFairness

\* the worker starts with no token stored
SpecBurst == Init /\ [][NextBurst]_vars

SpecRace == Init /\ [][NextRace]_vars

SpecFrame == Init /\ [][NextFrame]_vars

\* the steps of the receiver and of the callback are taken; a delivery to
\* an edge worker may never end
WebhookFairness ==
  \A id \in WebhookIds :
    /\ WF_vars(ReceiverVerify(id))
    /\ WF_vars(Callback(id))
    /\ WF_vars(ReceiverAck(id))
    /\ WF_vars(SenderLookup(id))

SpecWebhook == Init /\ [][NextWebhook]_vars /\ WebhookFairness

SpecDispatch == Init /\ [][NextDispatch]_vars

SpecRegistry == Init /\ [][NextRegistry]_vars

SpecOAuth == Init /\ [][NextOAuth]_vars

SpecRegister == Init /\ [][NextRegister]_vars

\* ---------------------------------------------------- claims: the cipher

\* the object o restricted to the keys of an OAuthToken
TokenFields == {"accessToken", "refreshToken", "expiresAt", "obtainedAt", "scope",
                "workspaceId"}

OnlyTokenFields(o) == [k \in (DOMAIN o) \cap TokenFields |-> o[k]]

\* C5: decryptToken(encryptToken(T)) equals T, with exactly T's fields and
\* nothing more, for every valid token T, with or without refreshToken.
C5_RoundTrip ==
  (cKind = "new" /\ cDec.done) => (cDec.ok /\ cDec.value = cToken)

\* what the code does return: T's fields, and the two nonces beside them
C5_RoundTripUpToNonces ==
  (cKind = "new" /\ cDec.done) =>
    /\ cDec.ok
    /\ OnlyTokenFields(cDec.value) = cToken
    /\ DOMAIN cDec.value = (DOMAIN cToken) \cup {"iv", "refreshTokenIv"}

LoggedIv(k) == base64ToArrayBuffer(encLog[k].enc["iv"])

LoggedRefreshIv(k) == base64ToArrayBuffer(encLog[k].enc["refreshTokenIv"])

\* C8: over any sequence of encryptToken calls under one key no nonce is used
\* twice: the two nonces of one record differ, and the nonce pairs of two
\* calls (of the same token or not) have no nonce in common.
C8_NoNonceReuse ==
  /\ \A k \in DOMAIN encLog : LoggedIv(k) # LoggedRefreshIv(k)
  /\ \A j, k \in DOMAIN encLog :
       j # k => {LoggedIv(j), LoggedRefreshIv(j)} \cap {LoggedIv(k), LoggedRefreshIv(k)} = {}

C8_Witness ==
  \E j, k \in DOMAIN encLog :
    /\ j < k
    /\ encLog[j].token = encLog[k].token
    /\ Has(encLog[j].token, "refreshToken")
    /\ encLog[j].enc["accessToken"] # encLog[k].enc["accessToken"]

SameSecrets(a, b) ==
  /\ Has(a, "accessToken") /\ a["accessToken"] = b["accessToken"]
  /\ Has(a, "refreshToken") = Has(b, "refreshToken")
  /\ Has(b, "refreshToken") => a["refreshToken"] = b["refreshToken"]

C22_DeterministicKey ==
  /\ \A i, j \in Instances :
       (encryptionKey[i] # NoKey /\ encryptionKey[j] # NoKey) =>
         encryptionKey[i] = encryptionKey[j]
  /\ \A i \in Instances :
       encryptionKey[i] # NoKey =>
         encryptionKey[i] = DeriveBits(SecretKey, Salt, Pbkdf2Iterations, KeyBits)
  /\ (cKind = "new" /\ cDec.done) =>
       /\ cDec.ok
       /\ SameSecrets(cDec.value, cToken)
       /\ OnlyTokenFields(cDec.value) = cToken

\* a record with a refresh token, encrypted by one instance, has been
\* decrypted by the other
C22_Witness ==
  /\ cKind = "new" /\ cDec.done /\ cDec.ok
  /\ encLog[Len(encLog)].enc = cEnc
  /\ encLog[Len(encLog)].by # cDec.by
  /\ Has(cToken, "refreshToken")
  /\ encryptionKey[1] # NoKey /\ encryptionKey[2] # NoKey

\* ----------------------------------------------------- claims: the store

\* C6: getToken on a record that fails decryption (tampered ciphertext, wrong
\* nonce, unparseable bytes) returns null and deletes the record; a getToken
\* that follows, with no write between, finds no record and returns null
\* without attempting decryption.
C6_SelfHeal ==
  /\ \A w \in corrupted :
       KvLive(OAUTH_TOKENS[w], now) => ~ParseAndDecrypt(OAUTH_TOKENS[w].data, WorkerKey).ok
  /\ \A h \in AllStoreCallers :
       (sres[h].op = "get" /\ sres[h].failed) => sres[h].ret = "null"
  /\ \A w \in selfHealed : ~OAUTH_TOKENS[w].present
  /\ \A h \in AllStoreCallers :
       (sres[h].op = "get" /\ sres[h].afterHeal) =>
         (sres[h].ret = "null" /\ ~sres[h].decrypted)

C6_Witness ==
  \E h \in AllStoreCallers :
    /\ sres[h].op = "get" /\ sres[h].afterHeal
    /\ sres[h].ret = "null" /\ ~sres[h].decrypted
    /\ ~OAUTH_TOKENS[sres[h].w].present

\* C21: deleteToken is idempotent. It removes the record of its workspace and
\* returns normally; on a workspace with no stored record (never saved, or
\* already deleted) it changes nothing in the store and returns normally too,
\* so a second deleteToken leaves the store as the first one left it.
C21_DeleteIdempotent ==
  [][\A h \in StoreCallers, w \in Workspaces :
       (sres'[h].op = "delete" /\ DeleteToken(h, w)) =>
         /\ ~OAUTH_TOKENS'[w].present
         /\ OAUTH_TOKENS'[w] = KvAbsent
         /\ sres'[h].ret = "void"
         /\ ~OAUTH_TOKENS[w].present => OAUTH_TOKENS' = OAUTH_TOKENS]_vars

\* a deleteToken has returned that found no record of its workspace
C21_Witness ==
  \E h \in StoreCallers :
    /\ sres[h].op = "delete" /\ ~sres[h].found /\ sres[h].ret = "void"
    /\ ~OAUTH_TOKENS[sres[h].w].present

\* C10: saveToken stores the record with a TTL of
\* max(1, floor((expiresAt - now) / 1000)) seconds, at least 1 even when the
\* token has already expired, and with no TTL when the token has no expiry.
C10_SaveTtl ==
  \A w \in Workspaces :
    LET e == OAUTH_TOKENS[w] IN
    (e.present /\ e.data.kind = "json") =>
      IF Has(e.data.obj, "expiresAt")
      THEN /\ e.ttl >= 1
           /\ e.ttl = Max(1, (e.data.obj["expiresAt"] - e.putAt) \div 1000)
      ELSE e.ttl = NoTtl

C10_Witness ==
  /\ \E w \in Workspaces :
       LET e == OAUTH_TOKENS[w] IN
       /\ e.present /\ e.data.kind = "json" /\ Has(e.data.obj, "expiresAt")
       /\ e.data.obj["expiresAt"] < e.putAt
       /\ e.ttl = 1
  /\ \E w \in Workspaces :
       LET e == OAUTH_TOKENS[w] IN
       /\ e.present /\ e.data.kind = "json" /\ ~Has(e.data.obj, "expiresAt")
       /\ e.ttl = NoTtl


\* ------------------------------------------- claims: the refresh-token route

\* C1: with limit 10 and a window of 60000 ms, when the refresh requests of
\* one workspace are handled one after another, the 11th request of a window
\* (it arrives while now - windowStart < 60000) is answered 429, with a
\* retry-after greater than 0 computed from windowStart + windowMs - now.
C1_EleventhRejected ==
  \A h \in Handlers :
    rresp[h].seqNo = maxRequests + 1 =>
      /\ rresp[h].status = 429
      /\ rresp[h].retryAfter > 0
      /\ rresp[h].retryAfter =
           CeilDiv(rresp[h].winStart + windowMs - rresp[h].sentAt, 1000)

\* an 11th request, later than the first of its window, has been rejected
C1_Witness ==
  \E h \in Handlers :
    /\ rresp[h].seqNo = maxRequests + 1
    /\ rresp[h].status = 429
    /\ rresp[h].sentAt > rresp[h].winStart

\* C2: every failure of POST /oauth/refresh-token (the refresh service
\* throwing, or the body failing to parse) is answered with JSON whose body
\* has success = false, never with the plain-text "Internal server error"
\* of the fetch handler.
C2_StructuredFailures ==
  \A h \in Handlers :
    rresp[h].cause # "" =>
      /\ rresp[h].kind = "json"
      /\ rresp[h].success = "false"

\* C3: a refresh failure is answered 404 when no token or no refresh token
\* is stored, 401 when the refresh token is invalid or expired, 500 otherwise.
C3_StatusMapping ==
  \A h \in Handlers :
    rresp[h].cause # "" =>
      rresp[h].status =
        IF rresp[h].cause \in {"No token found", "No refresh token"} THEN 404
        ELSE IF rresp[h].cause \in {"Invalid refresh token", "Refresh token expired"}
        THEN 401
        ELSE 500

SameResult(r1, r2) ==
  /\ r1.status = r2.status
  /\ r1.kind = r2.kind
  /\ r1.success = r2.success
  /\ r1.error = r2.error
  /\ r1.token = r2.token

C7_AckWithoutDelivery ==
  \A id \in WebhookIds : (wh[id].pc = "callback") ~> (wh[id].resp = "ack")

\* a webhook is acknowledged while none of its deliveries has ended
C7_Witness ==
  \E id \in WebhookIds :
    /\ wh[id].resp = "ack"
    /\ bg[id].state = "sending"
    /\ bg[id].pending = Edges


\* ------------------------------------------------ claims: the rate limiter

\* the handler h decides on its request in this step
Decides(h) == rpc[h] = "limit" /\ rpc'[h] # "limit"

\* C11: a request that finds no stored window, or a stored window with
\* now - windowStart >= windowMs, is admitted and the stored window becomes
\* {count: 1, windowStart: now}: the stale count is not carried over.
C11_StaleWindowReset ==
  [][\A h \in Handlers :
       (/\ Decides(h)
        /\ \/ rloc[h].data.kind = "none"
           \/ rloc[h].nowL - rloc[h].data.obj.windowStart >= windowMs)
       => /\ rpc'[h] = "call"
          /\ KvGet(OAUTH_STATE', rloc[h].w, now) =
               JSONstringify([count |-> 1, windowStart |-> rloc[h].nowL])]_vars

\* a request later than a whole window after the first one was admitted, and
\* the stored window restarted with it
C11_Witness ==
  /\ nreq >= 2
  /\ rresp[1].seqNo = 1
  /\ rresp[1].sentAt >= windowMs
  /\ rpc[1] = "call"
  /\ KvGet(OAUTH_STATE, "W1", now) =
       JSONstringify([count |-> 1, windowStart |-> rresp[1].sentAt])


\* C12: the rate-limit check precedes the refresh: a request rejected as
\* rate-limited ends there, the refresh service is not invoked for it and
\* no upstream token call is made.
C12_RejectedNeverRefreshes ==
  [][\A h \in Handlers :
       (Decides(h) /\ rresp'[h].status = 429)
       => /\ rpc'[h] = "idle"
          /\ rresp'[h].fid = NoFlight
          /\ UNCHANGED <<flight, attached, refreshPromises, OAUTH_TOKENS>>]_vars

\* a request was rejected after earlier ones had been refreshed, and no
\* flight exists
C12_Witness ==
  \E h \in Handlers :
    /\ rresp[h].status = 429
    /\ rpc[h] = "idle"
    /\ rng > 0
    /\ \A o \in Handlers : flight[o].state = "none"

\* C13: a request whose body has no workspaceId is answered 400 and has no
\* side effect: the rate-limit records are not read into the handler nor
\* written, the token records are untouched and no refresh is started.
C13_MissingFieldNoEffect ==
  [][\A h \in Handlers :
       RefreshArrive(h, "missing", MaxRequests)
       => /\ rresp'[h].status = 400
          /\ rresp'[h].kind = "json"
          /\ rpc'[h] = "idle"
          /\ UNCHANGED <<OAUTH_STATE, OAUTH_TOKENS, rloc, gWin, flight, attached,
                         refreshPromises>>]_vars

\* a request without workspaceId was answered 400 while another handler's
\* refresh was pending
C13_Witness ==
  \E h, o \in Handlers :
    /\ rresp[h].status = 400
    /\ rresp[h].error = "workspaceId is required"
    /\ flight[o].state = "upstream"


\* C14: a request whose body does not parse is a validation error and is
\* answered 400.
C14_MalformedBodyIs400 ==
  \A h \in Handlers :
    rresp[h].cause = ErrSyntax.message => rresp[h].status = 400


\* C15: no response of the route contains the refresh token: the body of a
\* 200 carries accessToken, expiresAt and obtainedAt only, no other response
\* carries a token, and the run that differs only in the value of the stored
\* refresh token gets the same body.
C15_NoRefreshTokenInResponse ==
  \A h \in Handlers :
    IF rresp[h].status = 200
    THEN /\ DOMAIN rresp[h].token = {"accessToken", "expiresAt", "obtainedAt"}
         /\ rresp[h].token = rresp[h].twin
    ELSE rresp[h].token = NoObj

\* a refresh was answered 200 for a workspace whose stored token has a
\* refresh token
C15_Witness ==
  \E h \in Handlers :
    /\ rresp[h].status = 200
    /\ rpc[h] = "idle"
    /\ ParseAndDecrypt(OAUTH_TOKENS[rloc[h].w].data, WorkerKey).value["refreshToken"]
         = <<114>>


\* ----------------------------------------------- claims: error responses

\* C16: error responses carry a generic message only: the message of the
\* error that was thrown is not copied into the body of a response of
\* POST /oauth/refresh-token or POST /edge/register.
C16_GenericErrorMessages ==
  /\ eresp.cause # "" => eresp.error # eresp.cause
  /\ \A h \in Handlers : rresp[h].cause # "" => rresp[h].error # rresp[h].cause


\* C17: a failure of the background fan-out is caught and logged inside the
\* background task: it never surfaces as an unhandled rejection, and the
\* response already returned for the webhook never changes.
C17_FanOutFailureContained ==
  /\ [](\A id \in WebhookIds : bg[id].state # "unhandled")
  /\ [][\A id \in WebhookIds : wh[id].resp # "none" => wh'[id].resp = wh[id].resp]_vars

\* the fan-out of an acknowledged webhook has failed
C17_Witness ==
  \E id \in WebhookIds :
    /\ bg[id].state = "failed"
    /\ wh[id].resp = "ack"


\* the requests of workspace w admitted at a time in [a, a + windowMs]
AdmittedWithin(w, a) ==
  Cardinality({i \in 1 .. Len(gWin[w].admitted) :
                 a <= gWin[w].admitted[i] /\ gWin[w].admitted[i] <= a + windowMs})

\* C18: of the requests of one workspace handled one after another, at most
\* 2 * maxRequests are admitted in any interval of length windowMs ...
C18_AtMostTwiceTheLimit ==
  \A w \in Workspaces :
    \A i \in 1 .. Len(gWin[w].admitted) :
      AdmittedWithin(w, gWin[w].admitted[i]) <= 2 * maxRequests

\* ... and a burst across a window boundary reaches 2 * maxRequests
C18_Witness ==
  \E w \in Workspaces :
    \E i \in 1 .. Len(gWin[w].admitted) :
      AdmittedWithin(w, gWin[w].admitted[i]) = 2 * maxRequests


\* ------------------------------------------- claims: workspace isolation

\* the step leaves the token record and the rate-limit record of every
\* workspace other than w as they are
Untouched(w) ==
  \A w2 \in Workspaces \ {w} :
    /\ OAUTH_TOKENS'[w2] = OAUTH_TOKENS[w2]
    /\ OAUTH_STATE'[w2] = OAUTH_STATE[w2]

\* C19: saveToken, getToken, deleteToken and the rate-limit update for one
\* workspace leave the token record and the rate-limit record of every other
\* workspace unchanged.
C19_WorkspaceIsolation ==
  [][/\ \A h \in StoreCallers, w \in Workspaces :
          /\ (sres'[h].op = "save" /\ \E t \in StoreTokens(w) : SaveToken(h, w, t))
               => Untouched(w)
          /\ (sres'[h].op = "get" /\ GetTokenRead(h, w)) => Untouched(w)
          /\ (sres'[h].op = "delete" /\ DeleteToken(h, w)) => Untouched(w)
     /\ \A h \in StoreCallers : GetTokenDecrypt(h) => Untouched(sloc[h].w)
     /\ \A h \in Handlers : Decides(h) => Untouched(rloc[h].w)]_vars

\* W1's token was deleted after its corrupt record had been cleaned up once,
\* while W2 keeps a token record and both workspaces a rate-limit record
C19_Witness ==
  /\ sres[1].op = "delete"
  /\ sres[1].w = "W1"
  /\ "W1" \in selfHealed
  /\ OAUTH_TOKENS["W2"].present
  /\ OAUTH_STATE["W1"].present
  /\ OAUTH_STATE["W2"].present


\* ------------------------------------------- claims: the limiter's race

\* the count stored for workspace w, 0 when no record is live
StoredCount(w) ==
  IF KvGet(OAUTH_STATE, w, now).kind = "json"
  THEN KvGet(OAUTH_STATE, w, now).obj.count ELSE 0

\* C20: the limiter's update is a read followed, in a later step, by a write
\* that does not look at the record again. The count an admitted handler
\* stores is computed from the record it read on arrival, whatever another
\* handler has stored since (the last write wins), so the stored count never
\* exceeds, and may fall behind, the number of requests admitted in the
\* window.
C20_LastWriteWins ==
  /\ [](\A w \in Workspaces :
          KvGet(OAUTH_STATE, w, now).kind = "json" =>
            StoredCount(w) <= AdmittedWithin(w, KvGet(OAUTH_STATE, w, now).obj.windowStart))
  /\ [][\A h \in Handlers :
          (Decides(h) /\ RateLimit(rloc[h].data, rloc[h].nowL).allowed) =>
            /\ OAUTH_STATE'[rloc[h].w].present
            /\ OAUTH_STATE'[rloc[h].w].data.obj.count
                 = RateLimit(rloc[h].data, rloc[h].nowL).requestCount]_vars

\* two handlers have read the same stored count, maxRequests - 1, both have
\* been admitted, the stored count has grown by one, to maxRequests, and
\* maxRequests + 1 requests have been admitted in the one window
C20_Witness ==
  /\ rloc[1].w = "W1" /\ rloc[2].w = "W1"
  /\ rloc[1].data.kind = "json" /\ rloc[1].data = rloc[2].data
  /\ rloc[1].data.obj.count = maxRequests - 1
  /\ rpc[1] = "call" /\ rpc[2] = "call"
  /\ StoredCount("W1") = maxRequests
  /\ AdmittedWithin("W1", rloc[1].data.obj.windowStart) = maxRequests + 1


\* ------------------------------------------- claims: the refresh's retries

\* the handlers that await the flight of owner o
Awaiting(o) == {h \in Handlers : attached[h] = o /\ rpc[h] = "await"}

\* C23: a refresh makes at most 3 upstream token calls. A call that fails
\* with 5xx, 429 or a network failure is followed by another call while fewer
\* than 3 have been made, and by the error once 3 have; a call that succeeds
\* ends the refresh with its token; a call answered 4xx other than 429 ends
\* the refresh with the error, whatever the number of calls made so far.
C23_RetryBudget ==
  /\ [](/\ \A o \in Handlers : flight[o].attempt <= 3
        /\ \A h \in Handlers :
             /\ rresp[h].calls <= 3
             /\ rresp[h].status = 200 => rresp[h].calls >= 1
             /\ rresp[h].cause = ErrUpstream.message => rresp[h].calls = 3)
  /\ [][\A o \in Handlers :
          /\ UpstreamFails(o) =>
               IF flight[o].attempt < 3
               THEN /\ flight'[o] = [flight[o] EXCEPT !.attempt = @ + 1]
                    /\ rresp' = rresp
               ELSE /\ flight'[o].state = "none"
                    /\ \A h \in Awaiting(o) : rresp'[h].cause = ErrUpstream.message
          /\ UpstreamRejects(o) =>
               /\ flight'[o].state = "none"
               /\ \A h \in Awaiting(o) :
                    /\ rresp'[h].cause = ErrInvalidRefreshToken.message
                    /\ rresp'[h].calls = flight[o].attempt
          /\ UpstreamOk(o) =>
               /\ flight'[o].state = "none"
               /\ \A h \in Awaiting(o) :
                    /\ rresp'[h].status = 200
                    /\ rresp'[h].calls = flight[o].attempt
                    /\ rresp'[h].token["accessToken"]
                         = RefreshedToken(flight[o].w, now, flight[o].token)["accessToken"]]_vars

\* one refresh was answered with the token of its third call, and another
\* one failed on a 4xx at its first call
C23_Witness ==
  \E h1, h2 \in Handlers :
    /\ rresp[h1].status = 200 /\ rresp[h1].calls = 3
    /\ rresp[h2].cause = ErrInvalidRefreshToken.message /\ rresp[h2].calls = 1

\* C24: the dedup entry of a workspace is there exactly while a flight of the
\* workspace is pending (NotStarted: no entry; InFlight: the entry names the
\* flight). An entry appears only by a refresh starting with none pending,
\* and it disappears in the step that completes its flight, on success and
\* on failure, answering every caller attached to it; it is never replaced.
\* No entry stays for ever; and a refresh that starts with no entry pending
\* starts a flight of its own.
C24_EntryRemoved ==
  /\ [](\A w \in Workspaces :
          /\ refreshPromises[w] # NoFlight =>
               /\ flight[refreshPromises[w]].state \in {"load", "upstream"}
               /\ flight[refreshPromises[w]].w = w
          /\ \A o \in Handlers :
               (flight[o].state # "none" /\ flight[o].w = w) => refreshPromises[w] = o)
  /\ [][\A w \in Workspaces :
          refreshPromises'[w] # refreshPromises[w] =>
            IF refreshPromises[w] = NoFlight
            THEN /\ rpc[refreshPromises'[w]] = "call"
                 /\ rloc[refreshPromises'[w]].w = w
                 /\ flight'[refreshPromises'[w]].state = "load"
                 /\ flight'[refreshPromises'[w]].id = rloc[refreshPromises'[w]].req
            ELSE /\ refreshPromises'[w] = NoFlight
                 /\ flight'[refreshPromises[w]].state = "none"
                 /\ \A h \in Awaiting(refreshPromises[w]) :
                      rpc'[h] = "idle" /\ rresp'[h].fid = flight[refreshPromises[w]].id]_vars
  /\ [][\A h \in Handlers :
          (RefreshStart(h) /\ refreshPromises[rloc[h].w] = NoFlight) =>
            /\ refreshPromises'[rloc[h].w] = h
            /\ attached'[h] = h
            /\ flight'[h].state = "load"]_vars
  /\ \A w \in Workspaces :
       (refreshPromises[w] # NoFlight) ~> (refreshPromises[w] = NoFlight)

\* two refreshes of one workspace, one after the other: the first failed
\* after its upstream calls, the second was served by a flight of its own,
\* which made its own upstream call, and no entry is left
C24_Witness ==
  /\ rresp[1].fid # NoFlight /\ rresp[2].fid # NoFlight
  /\ rresp[1].fid < rresp[2].fid
  /\ rloc[1].w = rloc[2].w
  /\ rresp[1].cause = ErrUpstream.message
  /\ rresp[2].status = 200 /\ rresp[2].calls >= 1
  /\ refreshPromises[rloc[1].w] = NoFlight
  /\ rpc[1] = "idle" /\ rpc[2] = "idle"


\* ------------------------------------------------- claims: the fan-out

RecordsOf(records, w, e) == {r \in records : r.workspaceId = w /\ r.endpointUrl = e}

\* C26: the registry holds at most one record per (workspaceId, endpointUrl).
\* Registering a pair that has a record replaces that record by one with the
\* credential received and the time of the call, reported as not newly
\* created, and the number of records stays; registering a pair that has
\* none adds exactly one record, reported as newly created. The records of
\* the other pairs stay as they are.
C26_OneRecordPerPair ==
  /\ [](\A w \in Workspaces, e \in Edges : Cardinality(RecordsOf(registry, w, e)) <= 1)
  /\ [][\A body \in RegistrationBodies :
          (body.parses /\ Has(body.registration, "endpointUrl") /\ EdgeRegister(body)) =>
            LET w == body.registration.workspaceId
                e == body.registration.endpointUrl
            IN  /\ RecordsOf(registry', w, e) = {eresp'.record}
                /\ eresp'.record.credential = body.registration.credential
                /\ eresp'.record.lastSeenAt = now
                /\ eresp'.created = (RecordsOf(registry, w, e) = {})
                /\ Cardinality(registry') =
                     Cardinality(registry) + (IF eresp'.created THEN 1 ELSE 0)
                /\ registry' \ RecordsOf(registry', w, e)
                     = registry \ RecordsOf(registry, w, e)]_vars

\* a pair was registered again, later and with another credential: the one
\* record of the pair carries the new credential and the later time
C26_Witness ==
  /\ eresp.status = 200 /\ ~eresp.created
  /\ eresp.record.credential = "K2" /\ eresp.record.lastSeenAt > 0
  /\ RecordsOf(registry, eresp.record.workspaceId, eresp.record.endpointUrl) = {eresp.record}
  /\ Cardinality(registry) = 4


\* --------------------------------------- claims: the anti-forgery state

\* C27: a state value is single-use. A callback is accepted only if its
\* state value is persisted at that time, and the value is deleted in the
\* step that accepts it; a callback whose state is missing, unknown, expired
\* or already used is rejected with InvalidState, and then no code is
\* exchanged and no token saved. So no accepted value is persisted again,
\* and codes are exchanged only for accepted callbacks.
C27_StateSingleUse ==
  /\ [](/\ \A s \in oauth.accepted : ~OAUTH_STATE[s].present
        /\ oauth.accepted \subseteq oauth.issued
        /\ oauth.exchanges <= Cardinality(oauth.accepted)
        /\ oauth.saved <= oauth.exchanges)
  /\ [][\A s \in ({""} \cup OAuthStates) :
          CallbackValidate(s) =>
            IF s \in OAuthStates /\ KvLive(OAUTH_STATE[s], now)
            THEN /\ s \notin oauth.accepted
                 /\ ~OAUTH_STATE'[s].present
                 /\ oauth'.pc = "exchange"
            ELSE /\ oauth'.resp = "InvalidState"
                 /\ oauth'.pc = "idle"
                 /\ oauth'.exchanges = oauth.exchanges
                 /\ oauth'.saved = oauth.saved
                 /\ OAUTH_TOKENS' = OAUTH_TOKENS
                 /\ OAUTH_STATE' = OAUTH_STATE]_vars

\* a callback was accepted, its code exchanged and the token saved; a later
\* callback with the same state value has been rejected
C27_Witness ==
  /\ oauth.resp = "InvalidState" /\ oauth.pc = "idle"
  /\ oauth.state \in oauth.accepted
  /\ oauth.exchanges = 1 /\ oauth.saved = 1
  /\ OAUTH_TOKENS["W1"].present


\* ------------------------------------- claims: the rate-limit record

\* C28: every write of a rate-limit record sets a TTL of
\* ceil(windowMs / 1000) + 10 seconds, counted from the write, and the write
\* is not earlier than the start of the window it stores; so the record
\* expires later than windowStart + windowMs, and while the window lasts the
\* stored count can be read.
C28_TtlOutlivesWindow ==
  /\ [](\A w \in Workspaces :
          OAUTH_STATE[w].present =>
            /\ OAUTH_STATE[w].ttl = CeilDiv(windowMs, 1000) + 10
            /\ OAUTH_STATE[w].putAt >= OAUTH_STATE[w].data.obj.windowStart
            /\ OAUTH_STATE[w].putAt + OAUTH_STATE[w].ttl * 1000
                 > OAUTH_STATE[w].data.obj.windowStart + windowMs
            /\ now - OAUTH_STATE[w].data.obj.windowStart < windowMs =>
                 KvGet(OAUTH_STATE, w, now) = OAUTH_STATE[w].data)
  /\ [][\A h \in Handlers :
          (Decides(h) /\ rpc'[h] = "call") =>
            /\ OAUTH_STATE'[rloc[h].w].putAt = now
            /\ OAUTH_STATE'[rloc[h].w].ttl = CeilDiv(windowMs, 1000) + 10]_vars

\* a record written late in its window is there, with its count, at a time
\* the window still lasts
C28_Witness ==
  /\ OAUTH_STATE["W1"].present
  /\ OAUTH_STATE["W1"].putAt > OAUTH_STATE["W1"].data.obj.windowStart
  /\ OAUTH_STATE["W1"].data.obj.count >= 2
  /\ now - OAUTH_STATE["W1"].data.obj.windowStart < windowMs
  /\ KvGet(OAUTH_STATE, "W1", now) = OAUTH_STATE["W1"].data

\* C29: whatever the interleaving of the handlers, the count of a stored
\* rate-limit record is at least 1 and at most maxRequests: a request whose
\* count would exceed the limit is rejected and writes nothing.
C29_CountWithinLimit ==
  /\ [](\A w \in Workspaces :
          OAUTH_STATE[w].present =>
            /\ OAUTH_STATE[w].data.obj.count >= 1
            /\ OAUTH_STATE[w].data.obj.count <= maxRequests)
  /\ [][\A h \in Handlers :
          (/\ Decides(h)
           /\ rloc[h].data.kind = "json"
           /\ rloc[h].nowL - rloc[h].data.obj.windowStart < windowMs
           /\ rloc[h].data.obj.count + 1 > maxRequests)
          => /\ rresp'[h].status = 429
             /\ OAUTH_STATE' = OAUTH_STATE]_vars

\* the stored count is at the limit, more requests than the limit have been
\* admitted (two handlers read the same count), and a request has been
\* rejected
C29_Witness ==
  /\ StoredCount("W1") = maxRequests
  /\ Len(gWin["W1"].admitted) > maxRequests
  /\ \E h \in Handlers : rresp[h].status = 429

\* C30: a request rejected with 429 leaves the stored record as it is, its
\* count, its windowStart and its TTL: the window ends when it would have
\* ended without the rejected requests.
C30_RejectionWritesNothing ==
  [][\A h \in Handlers :
       (Decides(h) /\ rresp'[h].status = 429) =>
         /\ OAUTH_STATE' = OAUTH_STATE
         /\ rloc[h].data.obj.count = maxRequests
         /\ rresp'[h].retryAfter =
              CeilDiv(rloc[h].data.obj.windowStart + windowMs - rloc[h].nowL, 1000)]_vars

\* a request was rejected late in the window, and the stored record is the
\* one written when the window's last request was admitted
C30_Witness ==
  /\ rresp[1].status = 429
  /\ rpc[1] = "idle"
  /\ OAUTH_STATE["W1"].present
  /\ OAUTH_STATE["W1"].data.obj.count = maxRequests
  /\ OAUTH_STATE["W1"].putAt < rresp[1].sentAt
  /\ OAUTH_STATE["W1"].data.obj.windowStart = rresp[1].winStart

\* C31: the cleanup of getToken removes only the record it failed to decrypt:
\* when getToken returns and the record stored at that time is a valid one
\* (saved by another handler after getToken's read), that record stays.
C31_CleanupKeepsValidToken ==
  [][\A h \in AllStoreCallers :
       (/\ spc[h] = "get:decrypt"
        /\ spc'[h] = "idle"
        /\ KvLive(OAUTH_TOKENS[sloc[h].w], now)
        /\ ParseAndDecrypt(OAUTH_TOKENS[sloc[h].w].data, WorkerKey).ok)
       => OAUTH_TOKENS'[sloc[h].w] = OAUTH_TOKENS[sloc[h].w]]_vars

\* C32: the rate-limit counter is written before the refresh is attempted and
\* nothing but the limiter writes it: while the refresh runs and when it has
\* ended, with a token or with a failure, the stored count is the ordinal of
\* the request in its window.
C32_CounterNotRolledBack ==
  /\ [](\A h \in Handlers :
          rpc[h] \in {"call", "await"} =>
            /\ OAUTH_STATE[rloc[h].w].present
            /\ OAUTH_STATE[rloc[h].w].data.obj.count = rresp[h].seqNo)
  /\ [][\A h \in Handlers :
          (rpc[h] = "await" /\ rpc'[h] = "idle") =>
            /\ OAUTH_STATE' = OAUTH_STATE
            /\ OAUTH_STATE[rloc[h].w].data.obj.count = rresp'[h].seqNo]_vars
  /\ [][(\A h \in Handlers : ~Decides(h)) => OAUTH_STATE' = OAUTH_STATE]_vars

\* the second request of a window failed, and the stored count is 2
C32_Witness ==
  /\ rpc[1] = "idle"
  /\ rresp[1].cause # ""
  /\ rresp[1].status # 429
  /\ rresp[1].seqNo = 2
  /\ OAUTH_STATE["W1"].present
  /\ OAUTH_STATE["W1"].data.obj.count = 2

\* C33: from a saveToken(W, T) until the next saveToken or deleteToken of W
\* or the expiry of the record, the record of W is the one written for T, and
\* a getToken(W) returns a token with T's accessToken, refreshToken,
\* expiresAt, obtainedAt, scope and workspaceId; a later saveToken(W, T2)
\* puts T2 in the place of T. (A record corrupted in the store is not T's.)
C33_SaveThenGet ==
  /\ [](\A w \in Workspaces :
          (gSaved[w].has /\ w \notin corrupted) =>
            /\ OAUTH_TOKENS[w].present
            /\ LET r == ParseAndDecrypt(OAUTH_TOKENS[w].data, WorkerKey)
               IN  r.ok /\ OnlyTokenFields(r.value) = gSaved[w].token)
  /\ [][\A h \in StoreCallers :
          (/\ sres'[h].op = "get"
           /\ sres'[h] # sres[h]
           /\ gSaved[sres'[h].w].has
           /\ sres'[h].w \notin corrupted
           /\ KvLive(OAUTH_TOKENS[sres'[h].w], now))
          => \/ sres'[h].ret = "pending"
             \/ /\ sres'[h].ret = "token"
                /\ OnlyTokenFields(sres'[h].value) = gSaved[sres'[h].w].token]_vars
  /\ [][\A h \in StoreCallers, w \in Workspaces :
          (sres'[h].op = "save" /\ sres'[h].w = w /\ gSaved'[w] # gSaved[w]) =>
            OnlyTokenFields(ParseAndDecrypt(OAUTH_TOKENS'[w].data, WorkerKey).value)
              = gSaved'[w].token]_vars

\* a second saveToken of W1, later than the first, and a getToken that
\* returned its token
C33_Witness ==
  /\ rng = 4
  /\ now > 0
  /\ OAUTH_TOKENS["W1"].putAt > 0
  /\ sres[1].op = "get"
  /\ sres[1].w = "W1"
  /\ sres[1].ret = "token"
  /\ Has(sres[1].value, "refreshToken")
  /\ OnlyTokenFields(sres[1].value) = gSaved["W1"].token

\* C34: getToken writes to the store only when decryption fails: with no
\* record it returns null, with a record that decrypts it returns the token,
\* and in both cases every key of the store is as it was.
C34_GetWritesOnlyOnFailure ==
  /\ [][\A h \in StoreCallers, w \in Workspaces :
          (spc[h] = "idle" /\ sres'[h].op = "get" /\ GetTokenRead(h, w)) =>
            /\ OAUTH_TOKENS' = OAUTH_TOKENS
            /\ OAUTH_STATE' = OAUTH_STATE
            /\ ~KvLive(OAUTH_TOKENS[w], now) =>
                 (sres'[h].ret = "null" /\ ~sres'[h].failed)]_vars
  /\ [][\A h \in StoreCallers :
          (spc[h] = "get:decrypt" /\ spc'[h] = "idle") =>
            /\ OAUTH_STATE' = OAUTH_STATE
            /\ OAUTH_TOKENS' # OAUTH_TOKENS =>
                 /\ sres'[h].failed
                 /\ ~ParseAndDecrypt(sloc[h].data, WorkerKey).ok
                 /\ \A w \in Workspaces \ {sloc[h].w} :
                      OAUTH_TOKENS'[w] = OAUTH_TOKENS[w]
            /\ (sloc[h].w \notin corrupted /\ KvLive(OAUTH_TOKENS[sloc[h].w], now)) =>
                 /\ sres'[h].ret = "token"
                 /\ OAUTH_TOKENS' = OAUTH_TOKENS]_vars

\* getToken returned the token of W1 while both keys hold a record
C34_Witness ==
  /\ sres[1].op = "get"
  /\ sres[1].w = "W1"
  /\ sres[1].ret = "token"
  /\ ~sres[1].failed
  /\ OAUTH_TOKENS["W1"].present
  /\ OAUTH_TOKENS["W2"].present

\* C35: a verified webhook that carries no organizationId is never
\* transformed or dispatched, no background task is scheduled for it, and it
\* is acknowledged like any other webhook.
C35_NoOrganizationNoDispatch ==
  /\ [](\A id \in WebhookIds :
          (/\ wh[id].req.signed
           /\ wh[id].req.parses
           /\ ~Has(wh[id].req.webhook, "organizationId"))
          => /\ bg[id] = NoTask
             /\ wh[id].awaits = 0
             /\ wh[id].pc = "done" => wh[id].resp = "ack")
  /\ [][\A id \in WebhookIds :
          (/\ wh[id].pc = "callback"
           /\ wh'[id].pc # "callback"
           /\ ~Has(wh[id].req.webhook, "organizationId"))
          => (wh'[id].pc = "ack" /\ bg' = bg)]_vars
  /\ \A id \in WebhookIds :
       (wh[id].pc = "callback" /\ ~Has(wh[id].req.webhook, "organizationId"))
         ~> (wh[id].pc = "done" /\ wh[id].resp = "ack")

\* a webhook without organizationId was acknowledged with no task, after a
\* webhook of W1 was acknowledged and dispatched
C35_Witness ==
  /\ wh[1].resp = "ack"
  /\ bg[1].state = "done"
  /\ bg[1].count > 0
  /\ wh[2].req.signed
  /\ wh[2].req.parses
  /\ ~Has(wh[2].req.webhook, "organizationId")
  /\ wh[2].pc = "done"
  /\ wh[2].resp = "ack"
  /\ bg[2] = NoTask

====
